---- MODULE Spec2Model ----
(***************************************************************************)
(* Flow classification and cost computation of netcostiq                   *)
(* (src/src/cost_model.py, class CostCalculatorNRS).                       *)
(*                                                                         *)
(* Representation choices.                                                 *)
(*  - An address is a Python str; it is modelled as the sequence of its    *)
(*    characters so that str.startswith is a real prefix test.             *)
(*  - A byte count is a Python int of arbitrary size.  TLC integers have   *)
(*    32 bits, so a byte count is held in two limbs: the record            *)
(*    [gib |-> g, rem |-> r] stands for g * 2^30 + r with 0 <= r < 2^30.   *)
(*  - A cost is the float returned by round(x, 4).  It is modelled by the  *)
(*    decimal that round selects, as an integer number of 1e-4 NRS.        *)
(***************************************************************************)
EXTENDS Integers, Sequences, FiniteSets, TLC

VARIABLES
    df,        \* the flows dataframe: a sequence of rows (dicts)
    hasHour,   \* whether the dataframe has an 'hour' column
    pc,        \* position of the pipeline: "loading", "enriched", "reported"
    report,    \* the report returned by generate_cost_report
    call,      \* the last direct call of a calculator method, with its result
    batches,   \* the frames of report generations that run side by side
    packets,   \* the packets of the capture that extract_flows has gone through
    flows      \* the flows dictionary of extract_flows

vars == <<df, hasHour, pc, report, call, batches, packets, flows>>

(***************************************************************************)
(* Configuration tables of CostCalculatorNRS.__init__                      *)
(***************************************************************************)

\* a mutation of the rate table: internal traffic is billed
pricing_billed_internal ==
    [t \in {"CLOUD_EGRESS", "INTERNET_EGRESS", "INTERNET_INGRESS", "INTERNAL",
            "CDN_TRAFFIC", "VIDEO_STREAMING", "BACKUP_TRAFFIC", "OTHER"} |->
        CASE t = "CLOUD_EGRESS"     -> 85
          [] t = "INTERNET_EGRESS"  -> 75
          [] t = "INTERNET_INGRESS" -> 15
          [] t = "INTERNAL"         -> 5
          [] t = "CDN_TRAFFIC"      -> 45
          [] t = "VIDEO_STREAMING"  -> 60
          [] t = "BACKUP_TRAFFIC"   -> 35
          [] t = "OTHER"            -> 10]

\* self.pricing: NRS per GB
pricing ==
    [t \in {"CLOUD_EGRESS", "INTERNET_EGRESS", "INTERNET_INGRESS", "INTERNAL",
            "CDN_TRAFFIC", "VIDEO_STREAMING", "BACKUP_TRAFFIC", "OTHER"} |->
        CASE t = "CLOUD_EGRESS"     -> 85
          [] t = "INTERNET_EGRESS"  -> 75
          [] t = "INTERNET_INGRESS" -> 15
          [] t = "INTERNAL"         -> 0
          [] t = "CDN_TRAFFIC"      -> 45
          [] t = "VIDEO_STREAMING"  -> 60
          [] t = "BACKUP_TRAFFIC"   -> 35
          [] t = "OTHER"            -> 10]

\* self.peak_surcharge = 1.5, held as the number of halves
peak_surcharge == 3

\* a mutation of the peak window: it closes at 23 inclusive
peak_hours_closed == 9 .. 23

\* self.peak_hours = range(9, 23)
peak_hours == 9 .. 22

\* self.cloud_prefixes
cloud_prefixes ==
    << <<"2", "0", ".">>,
       <<"1", "3", ".">>,
       <<"5", "2", ".">>,
       <<"5", "4", ".">>,
       <<"3", "5", ".">>,
       <<"3", "4", ".">>,
       <<"8", ".", "8", ".">>,
       <<"2", "3", ".">>,
       <<"4", "5", ".">>,
       <<"5", "1", ".">> >>

\* self.internal_prefixes
internal_prefixes ==
    << <<"1", "9", "2", ".", "1", "6", "8", ".">>,
       <<"1", "0", ".">>,
       <<"1", "7", "2", ".", "1", "6", ".">>,
       <<"1", "7", "2", ".", "1", "7", ".">>,
       <<"1", "7", "2", ".", "1", "8", ".">>,
       <<"1", "7", "2", ".", "1", "9", ".">>,
       <<"1", "7", "2", ".", "2", "0", ".">>,
       <<"1", "7", "2", ".", "2", "1", ".">>,
       <<"1", "7", "2", ".", "2", "2", ".">>,
       <<"1", "7", "2", ".", "2", "3", ".">>,
       <<"1", "7", "2", ".", "2", "4", ".">>,
       <<"1", "7", "2", ".", "2", "5", ".">>,
       <<"1", "7", "2", ".", "2", "6", ".">>,
       <<"1", "7", "2", ".", "2", "7", ".">>,
       <<"1", "7", "2", ".", "2", "8", ".">>,
       <<"1", "7", "2", ".", "2", "9", ".">>,
       <<"1", "7", "2", ".", "3", "0", ".">>,
       <<"1", "7", "2", ".", "3", "1", ".">> >>

(***************************************************************************)
(* classify_traffic                                                        *)
(***************************************************************************)

\* str.startswith(p)
StartsWith(s, p) ==
    /\ Len(p) <= Len(s)
    /\ \A i \in 1 .. Len(p) : s[i] = p[i]

\* any(ip.startswith(p) for p in prefixes)
AnyPrefix(ip, prefixes) ==
    \E k \in 1 .. Len(prefixes) : StartsWith(ip, prefixes[k])

\* a mutation of classify_traffic: the cloud test ignores the direction
classify_traffic_cloud_any_source(src_ip, dst_ip) ==
    IF AnyPrefix(src_ip, internal_prefixes) /\ AnyPrefix(dst_ip, internal_prefixes)
    THEN "INTERNAL"
    ELSE LET src_is_internal == AnyPrefix(src_ip, internal_prefixes)
             is_cloud_dest   == AnyPrefix(dst_ip, cloud_prefixes)
         IN  IF is_cloud_dest
             THEN "CLOUD_EGRESS"
             ELSE IF src_is_internal
             THEN "INTERNET_EGRESS"
             ELSE IF ~src_is_internal /\ AnyPrefix(dst_ip, internal_prefixes)
             THEN "INTERNET_INGRESS"
             ELSE "OTHER"

\* a mutation of classify_traffic: the ingress branch forgets the destination
classify_traffic_ingress_any_dest(src_ip, dst_ip) ==
    IF AnyPrefix(src_ip, internal_prefixes) /\ AnyPrefix(dst_ip, internal_prefixes)
    THEN "INTERNAL"
    ELSE LET src_is_internal == AnyPrefix(src_ip, internal_prefixes)
             is_cloud_dest   == AnyPrefix(dst_ip, cloud_prefixes)
         IN  IF src_is_internal /\ is_cloud_dest
             THEN "CLOUD_EGRESS"
             ELSE IF src_is_internal
             THEN "INTERNET_EGRESS"
             ELSE IF ~src_is_internal
             THEN "INTERNET_INGRESS"
             ELSE "OTHER"

\* a mutation of classify_traffic: traffic between a cloud source and an
\* external destination takes the priced category CDN_TRAFFIC
classify_traffic_cdn(src_ip, dst_ip) ==
    IF AnyPrefix(src_ip, internal_prefixes) /\ AnyPrefix(dst_ip, internal_prefixes)
    THEN "INTERNAL"
    ELSE LET src_is_internal == AnyPrefix(src_ip, internal_prefixes)
             is_cloud_dest   == AnyPrefix(dst_ip, cloud_prefixes)
         IN  IF src_is_internal /\ is_cloud_dest
             THEN "CLOUD_EGRESS"
             ELSE IF src_is_internal
             THEN "INTERNET_EGRESS"
             ELSE IF ~src_is_internal /\ AnyPrefix(dst_ip, internal_prefixes)
             THEN "INTERNET_INGRESS"
             ELSE IF AnyPrefix(src_ip, cloud_prefixes)
             THEN "CDN_TRAFFIC"
             ELSE "OTHER"

classify_traffic(src_ip, dst_ip) ==
    IF AnyPrefix(src_ip, internal_prefixes) /\ AnyPrefix(dst_ip, internal_prefixes)
    THEN "INTERNAL"
    ELSE LET src_is_internal == AnyPrefix(src_ip, internal_prefixes)
             is_cloud_dest   == AnyPrefix(dst_ip, cloud_prefixes)
         IN  IF src_is_internal /\ is_cloud_dest
             THEN "CLOUD_EGRESS"
             ELSE IF src_is_internal
             THEN "INTERNET_EGRESS"
             ELSE IF ~src_is_internal /\ AnyPrefix(dst_ip, internal_prefixes)
             THEN "INTERNET_INGRESS"
             ELSE "OTHER"

(***************************************************************************)
(* calculate_flow_cost_nrs                                                 *)
(***************************************************************************)

\* dict.get(key, default)
Get(d, key, default) == IF key \in DOMAIN d THEN d[key] ELSE default

\* float('nan'): the byte count of a row whose cell is empty in the input
\* file, and every volume or cost computed from it
NaN == [nan |-> TRUE]

\* pd.isna, on a byte count or a volume
IsNaN(v) == DOMAIN v = {"nan"}

\* Exact product b * k / 2^27 of a two-limb byte count b and a multiplier
\* 0 <= k < 2^22, as an integer part and a numerator of the fraction over
\* 2^27; rem is multiplied in 9-bit limbs so that no step leaves 32 bits.
MulShift(b, k) ==
    LET c0 == b.rem % 512
        c1 == (b.rem \div 512) % 512
        c2 == (b.rem \div 262144) % 512
        c3 == b.rem \div 134217728
        t0 == c0 * k
        t1 == c1 * k + (t0 \div 512)
        t2 == c2 * k + (t1 \div 512)
    IN  [int  |-> (b.gib * 8 + c3) * k + (t2 \div 512),
         frac |-> (t2 % 512) * 262144 + (t1 % 512) * 512 + (t0 % 512)]

\* round(x, 4) of x = b * k / (2 * 2^30) where k is a rate in half-units:
\* x * 10^4 = b * (k * 625) / 2^27, rounded to the nearest integer, a tie
\* going to the even one (the float x is exact, and Python rounds the
\* exact value of the float)
Round4(b, k) ==
    IF IsNaN(b) THEN NaN
    ELSE LET p == MulShift(b, k * 625)
         IN  IF p.frac > 67108864 \/ (p.frac = 67108864 /\ p.int % 2 = 1)
             THEN p.int + 1
             ELSE p.int

\* a mutation of calculate_flow_cost_nrs: an unlisted category is free
calculate_flow_cost_nrs_default_free(flow) ==
    LET traffic_type == Get(flow, "traffic_type", "OTHER")
        base_rate    == Get(pricing, traffic_type, 0)
        factor       == IF Get(flow, "is_peak", FALSE) THEN peak_surcharge ELSE 2
    IN  Round4(flow.total_bytes, base_rate * factor)

\* a mutation of calculate_flow_cost_nrs: the surcharge is always applied
calculate_flow_cost_nrs_always_peak(flow) ==
    LET traffic_type == Get(flow, "traffic_type", "OTHER")
        base_rate    == Get(pricing, traffic_type, 10)
    IN  Round4(flow.total_bytes, base_rate * peak_surcharge)

\* a mutation of calculate_flow_cost_nrs: the surcharge is added as a flat
\* 0.0002 NRS instead of being multiplied in
calculate_flow_cost_nrs_flat_peak(flow) ==
    LET traffic_type == Get(flow, "traffic_type", "OTHER")
        base_rate    == Get(pricing, traffic_type, 10)
    IN  Round4(flow.total_bytes, base_rate * 2)
            + (IF Get(flow, "is_peak", FALSE) THEN 2 ELSE 0)

\* a mutation of calculate_flow_cost_nrs: the cost is taken on the magnitude
\* of the byte count
calculate_flow_cost_nrs_abs(flow) ==
    LET traffic_type == Get(flow, "traffic_type", "OTHER")
        base_rate    == Get(pricing, traffic_type, 10)
        factor       == IF Get(flow, "is_peak", FALSE) THEN peak_surcharge ELSE 2
        cost         == Round4(flow.total_bytes, base_rate * factor)
    IN  IF cost < 0 THEN 0 - cost ELSE cost

\* cost of one flow, in units of 1e-4 NRS
calculate_flow_cost_nrs(flow) ==
    LET traffic_type == Get(flow, "traffic_type", "OTHER")
        base_rate    == Get(pricing, traffic_type, 10)
        factor       == IF Get(flow, "is_peak", FALSE) THEN peak_surcharge ELSE 2
    IN  Round4(flow.total_bytes, base_rate * factor)

(***************************************************************************)
(* enrich_flows_with_costs                                                 *)
(***************************************************************************)

\* df[key] = value, on one row
SetColumn(row, key, value) ==
    [k \in DOMAIN row \cup {key} |-> IF k = key THEN value ELSE row[k]]

\* total_bytes / (1024**3): the whole GB and the remaining 2^-30ths of a GB
BytesToGB(b) == IF IsNaN(b) THEN NaN ELSE [gb |-> b.gib, frac |-> b.rem]

\* the four column assignments of enrich_flows_with_costs, on one row
EnrichRow(row, hourColumn) ==
    LET r1 == SetColumn(row, "traffic_type",
                        classify_traffic(row.src_ip, row.dst_ip))
        r2 == SetColumn(r1, "is_peak",
                        IF hourColumn THEN row.hour \in peak_hours ELSE FALSE)
        r3 == SetColumn(r2, "cost_nrs", calculate_flow_cost_nrs(r2))
    IN  SetColumn(r3, "total_gb", BytesToGB(row.total_bytes))

enrich_flows_with_costs(frame, hourColumn) ==
    [i \in 1 .. Len(frame) |-> EnrichRow(frame[i], hourColumn)]

(***************************************************************************)
(* generate_cost_report                                                    *)
(*                                                                         *)
(* Sums of costs are sums of the decimals (in 1e-4 NRS); amounts rounded   *)
(* to 2 decimals are integers of 1e-2 NRS; percentages rounded to 1        *)
(* decimal are integers of 0.1 %.                                          *)
(***************************************************************************)

\* round(n / d) for d > 0, a tie going to the even integer
RoundDiv(n, d) ==
    LET q == n \div d
        r == n % d
    IN  IF 2 * r > d \/ (2 * r = d /\ q % 2 = 1) THEN q + 1 ELSE q

\* the quotient and the remainder of num * scale by den, for num >= 0,
\* den > 0 and scale a power of ten, one decimal digit at a time so that no
\* product leaves 32 bits
RECURSIVE LongDiv(_, _, _)
LongDiv(num, den, scale) ==
    IF scale = 1 THEN [q |-> num \div den, r |-> num % den]
    ELSE LET p == LongDiv(num, den, scale \div 10)
         IN  [q |-> p.q * 10 + ((p.r * 10) \div den), r |-> (p.r * 10) % den]

\* a mutation of the rounded ratio: the digits after the last one are cut
RoundRatio_cut(num, den, scale) == LongDiv(num, den, scale).q

\* round(num / den * scale), ties to the even neighbour
RoundRatio(num, den, scale) ==
    LET p == LongDiv(num, den, scale)
    IN  IF 2 * p.r > den \/ (2 * p.r = den /\ p.q % 2 = 1) THEN p.q + 1 ELSE p.q

\* df['cost_nrs'].sum(), which skips the NaN costs: the cost of a row is
\* NaN exactly when its volume is
RECURSIVE SumCost(_)
SumCost(rows) ==
    IF rows = <<>> THEN 0
    ELSE IF IsNaN(Head(rows).total_gb) THEN SumCost(Tail(rows))
    ELSE Head(rows).cost_nrs + SumCost(Tail(rows))

\* the sum of two volumes in GB
AddGB(a, b) ==
    LET f == a.frac + b.frac
    IN  [gb |-> a.gb + b.gb + (f \div 1073741824), frac |-> f % 1073741824]

\* df['total_gb'].sum(), which skips the NaN volumes
RECURSIVE SumGB(_)
SumGB(rows) ==
    IF rows = <<>> THEN [gb |-> 0, frac |-> 0]
    ELSE IF IsNaN(Head(rows).total_gb) THEN SumGB(Tail(rows))
    ELSE AddGB(Head(rows).total_gb, SumGB(Tail(rows)))

\* round(gb, 4), in 1e-4 GB
RoundGB4(v) == Round4([gib |-> v.gb, rem |-> v.frac], 2)

\* the order of Python on the characters of an address
CharRank(c) ==
    CASE c = "." -> 46
      [] c = "0" -> 48 [] c = "1" -> 49 [] c = "2" -> 50 [] c = "3" -> 51
      [] c = "4" -> 52 [] c = "5" -> 53 [] c = "6" -> 54 [] c = "7" -> 55
      [] c = "8" -> 56 [] c = "9" -> 57
      [] c = "a" -> 97 [] c = "b" -> 98 [] c = "c" -> 99 [] c = "x" -> 120

\* a < b on strings
StrLess(a, b) ==
    \/ /\ Len(a) < Len(b)
       /\ \A i \in 1 .. Len(a) : a[i] = b[i]
    \/ \E i \in 1 .. Len(a) :
          /\ i <= Len(b)
          /\ \A j \in 1 .. i - 1 : a[j] = b[j]
          /\ CharRank(a[i]) < CharRank(b[i])

\* the keys of a groupby, which sorts them
RECURSIVE SortedKeys(_)
SortedKeys(keys) ==
    IF keys = {} THEN <<>>
    ELSE LET k == CHOOSE x \in keys : \A y \in keys : y = x \/ StrLess(x, y)
         IN  <<k>> \o SortedKeys(keys \ {k})

\* a mutation of nlargest: of equal costs the later row first (keep='last')
RECURSIVE NLargest_keep_last(_, _)
NLargest_keep_last(rows, n) ==
    IF n = 0 \/ rows = <<>> THEN <<>>
    ELSE LET i == CHOOSE k \in 1 .. Len(rows) :
                     /\ \A j \in 1 .. Len(rows) : rows[j].cost_nrs <= rows[k].cost_nrs
                     /\ \A j \in k + 1 .. Len(rows) : rows[j].cost_nrs < rows[k].cost_nrs
         IN  <<rows[i]>>
                 \o NLargest_keep_last(SubSeq(rows, 1, i - 1)
                                           \o SubSeq(rows, i + 1, Len(rows)),
                                       n - 1)

\* DataFrame.nlargest(n, 'cost_nrs'): cost descending, of equal costs the
\* earlier row first (keep='first')
RECURSIVE NLargest(_, _)
NLargest(rows, n) ==
    IF n = 0 \/ rows = <<>> THEN <<>>
    ELSE LET i == CHOOSE k \in 1 .. Len(rows) :
                     /\ \A j \in 1 .. Len(rows) : rows[j].cost_nrs <= rows[k].cost_nrs
                     /\ \A j \in 1 .. k - 1 : rows[j].cost_nrs < rows[k].cost_nrs
         IN  <<rows[i]>>
                 \o NLargest(SubSeq(rows, 1, i - 1) \o SubSeq(rows, i + 1, Len(rows)),
                             n - 1)

\* a mutation of the breakdown: the cost of a category is that of its first
\* flow
CostBreakdown_first(rows) ==
    [t \in {rows[i].traffic_type : i \in 1 .. Len(rows)} |->
        LET IsT(r) == r.traffic_type = t
            group  == SelectSeq(rows, IsT)
        IN  [total_gb |-> RoundGB4(SumGB(group)),
             cost_nrs |-> Head(group).cost_nrs,
             src_ip   |-> Len(group)]]

\* df.groupby('traffic_type').agg(...).round(4).to_dict('index')
CostBreakdown(rows) ==
    [t \in {rows[i].traffic_type : i \in 1 .. Len(rows)} |->
        LET IsT(r) == r.traffic_type = t
            group  == SelectSeq(rows, IsT)
        IN  [total_gb |-> RoundGB4(SumGB(group)),
             cost_nrs |-> SumCost(group),
             src_ip   |-> Len(group)]]

\* df.nlargest(10, 'cost_nrs')[[...]].to_dict('records'); the rows of NaN
\* cost come after the others, in their original order
TopExpensive(rows) ==
    LET HasCost(r) == ~IsNaN(r.total_gb)
        HasNoCost(r) == IsNaN(r.total_gb)
        all == NLargest(SelectSeq(rows, HasCost), 10) \o SelectSeq(rows, HasNoCost)
        top == SubSeq(all, 1, IF Len(all) < 10 THEN Len(all) ELSE 10)
    IN  [i \in 1 .. Len(top) |->
            [src_ip       |-> top[i].src_ip,
             dst_ip       |-> top[i].dst_ip,
             traffic_type |-> top[i].traffic_type,
             total_gb     |-> top[i].total_gb,
             cost_nrs     |-> top[i].cost_nrs]]

\* a mutation of the top sources: the first five groups, without nlargest
TopSources_first_five(rows) ==
    LET keys   == SortedKeys({rows[i].src_ip : i \in 1 .. Len(rows)})
        groups == [k \in 1 .. Len(keys) |->
                      LET IsK(r) == r.src_ip = keys[k]
                          group  == SelectSeq(rows, IsK)
                      IN  [src_ip   |-> keys[k],
                           cost_nrs |-> SumCost(group),
                           total_gb |-> SumGB(group)]]
    IN  SubSeq(groups, 1, IF Len(groups) < 5 THEN Len(groups) ELSE 5)

\* df.groupby('src_ip').agg(...).nlargest(5, 'cost_nrs').to_dict('index'),
\* as the sequence of the dict's items
TopSources(rows) ==
    LET keys   == SortedKeys({rows[i].src_ip : i \in 1 .. Len(rows)})
        groups == [k \in 1 .. Len(keys) |->
                      LET IsK(r) == r.src_ip = keys[k]
                          group  == SelectSeq(rows, IsK)
                      IN  [src_ip   |-> keys[k],
                           cost_nrs |-> SumCost(group),
                           total_gb |-> SumGB(group)]]
    IN  NLargest(groups, 5)

\* df[df['traffic_type'] == 'CLOUD_EGRESS']
IsCloudEgress(r) == r.traffic_type = "CLOUD_EGRESS"

\* df[df['is_peak'] == True]
IsPeak(r) == r.is_peak = TRUE

\* df[df['is_peak'] == False]
IsOffPeak(r) == r.is_peak = FALSE

\* df[df['total_gb'] > 0.5]
IsLargeFlow(r) ==
    /\ ~IsNaN(r.total_gb)
    /\ r.total_gb.gb >= 1 \/ (r.total_gb.gb = 0 /\ r.total_gb.frac > 536870912)

\* a mutation of the cloud egress entry: emitted from 100 NRS on
cloud_egress_opt_from_100(rows, total_cost_nrs) ==
    LET cloud_egress == SelectSeq(rows, IsCloudEgress)
        cloud_cost   == SumCost(cloud_egress)
        cloud_percentage ==
            IF total_cost_nrs > 0 THEN RoundRatio(cloud_cost, total_cost_nrs, 1000)
            ELSE 0
    IN  IF cloud_egress # <<>> /\ cloud_cost >= 100 * 10000
        THEN << [id |-> "CLOUD_EGRESS_OPT", priority |-> "HIGH",
                 description |-> [cloud_percentage |-> cloud_percentage],
                 potential_savings_nrs |-> RoundDiv(cloud_cost * 3, 1000)] >>
        ELSE <<>>

\* the cloud egress entry of _generate_recommendations, or nothing; the
\* description holds the percentage it prints, in 0.1 %, and the savings
\* are in 1e-2 NRS
cloud_egress_opt(rows, total_cost_nrs) ==
    LET cloud_egress == SelectSeq(rows, IsCloudEgress)
        cloud_cost   == SumCost(cloud_egress)
        cloud_percentage ==
            IF total_cost_nrs > 0 THEN RoundRatio(cloud_cost, total_cost_nrs, 1000)
            ELSE 0
    IN  IF cloud_egress # <<>> /\ cloud_cost > 100 * 10000
        THEN << [id |-> "CLOUD_EGRESS_OPT", priority |-> "HIGH",
                 description |-> [cloud_percentage |-> cloud_percentage],
                 potential_savings_nrs |-> RoundDiv(cloud_cost * 3, 1000)] >>
        ELSE <<>>

\* a mutation of the peak hour entry: emitted from 60% of the total cost
\* on, not above it
peak_hour_opt_from_60(rows, total_cost_nrs) ==
    LET peak_cost == SumCost(SelectSeq(rows, IsPeak))
    IN  IF 10 * peak_cost >= 6 * total_cost_nrs
        THEN << [id |-> "PEAK_HOUR_OPT", priority |-> "MEDIUM",
                 description |-> [dividend |-> peak_cost,
                                  divisor  |-> total_cost_nrs],
                 potential_savings_nrs |-> RoundDiv(peak_cost * 4, 1000)] >>
        ELSE <<>>

\* a mutation of the peak hour entry: emitted above half of the total cost
peak_hour_opt_above_half(rows, total_cost_nrs) ==
    LET peak_cost == SumCost(SelectSeq(rows, IsPeak))
    IN  IF 10 * peak_cost > 5 * total_cost_nrs
        THEN << [id |-> "PEAK_HOUR_OPT", priority |-> "MEDIUM",
                 description |-> [dividend |-> peak_cost,
                                  divisor  |-> total_cost_nrs],
                 potential_savings_nrs |-> RoundDiv(peak_cost * 4, 1000)] >>
        ELSE <<>>

\* the peak hour entry of _generate_recommendations, or nothing; the
\* description holds the division peak_cost / total_cost_nrs that it
\* formats
peak_hour_opt(rows, total_cost_nrs) ==
    LET peak_cost == SumCost(SelectSeq(rows, IsPeak))
    IN  IF 10 * peak_cost > 6 * total_cost_nrs
        THEN << [id |-> "PEAK_HOUR_OPT", priority |-> "MEDIUM",
                 description |-> [dividend |-> peak_cost,
                                  divisor  |-> total_cost_nrs],
                 potential_savings_nrs |-> RoundDiv(peak_cost * 4, 1000)] >>
        ELSE <<>>

\* a mutation of the large flow entry: emitted from three large flows on
large_flow_opt_from_three(rows) ==
    LET large_flows     == SelectSeq(rows, IsLargeFlow)
        large_flow_cost == SumCost(large_flows)
    IN  IF Len(large_flows) > 2
        THEN << [id |-> "LARGE_FLOW_OPT", priority |-> "MEDIUM",
                 description |-> [large_flows |-> Len(large_flows)],
                 potential_savings_nrs |-> RoundDiv(large_flow_cost * 2, 1000)] >>
        ELSE <<>>

\* the large flow entry of _generate_recommendations, or nothing
large_flow_opt(rows) ==
    LET large_flows     == SelectSeq(rows, IsLargeFlow)
        large_flow_cost == SumCost(large_flows)
    IN  IF Len(large_flows) > 3
        THEN << [id |-> "LARGE_FLOW_OPT", priority |-> "MEDIUM",
                 description |-> [large_flows |-> Len(large_flows)],
                 potential_savings_nrs |-> RoundDiv(large_flow_cost * 2, 1000)] >>
        ELSE <<>>

\* the two entries that _generate_recommendations always adds
general_recommendations(total_cost_nrs) ==
    << [id |-> "TRAFFIC_MONITORING", priority |-> "LOW",
        potential_savings_nrs |-> RoundDiv(total_cost_nrs * 15, 10000)],
       [id |-> "BANDWIDTH_UPGRADE", priority |-> "LOW",
        potential_savings_nrs |-> RoundDiv(total_cost_nrs * 25, 10000)] >>

\* a mutation of _generate_recommendations: the general entries come first
generate_recommendations_general_first(rows, total_cost_nrs) ==
    general_recommendations(total_cost_nrs)
        \o cloud_egress_opt(rows, total_cost_nrs)
        \o peak_hour_opt(rows, total_cost_nrs)
        \o large_flow_opt(rows)

\* _generate_recommendations: the identifier, the priority, the numbers of
\* the description and the savings of each entry; the other texts are left
\* out
generate_recommendations(rows, total_cost_nrs) ==
    cloud_egress_opt(rows, total_cost_nrs)
        \o peak_hour_opt(rows, total_cost_nrs)
        \o large_flow_opt(rows)
        \o general_recommendations(total_cost_nrs)

RECURSIVE SumSavings(_)
SumSavings(recs) ==
    IF recs = <<>> THEN 0
    ELSE Head(recs).potential_savings_nrs + SumSavings(Tail(recs))

\* _estimate_savings
estimate_savings(rows, total_cost_nrs) ==
    LET total_potential_savings ==
            SumSavings(generate_recommendations(rows, total_cost_nrs))
    IN  [immediate_savings_nrs |-> total_potential_savings,
         monthly_savings_nrs   |-> total_potential_savings * 24 * 30,
         savings_percentage    |->
             IF total_cost_nrs > 10000
             THEN RoundRatio(total_potential_savings, total_cost_nrs, 100000)
             ELSE total_potential_savings * 10]

\* pd.to_numeric(df['total_bytes'], errors='coerce').fillna(0), on one row:
\* a byte count that is a number is kept, anything else becomes 0
CoerceBytes(row) ==
    IF DOMAIN row.total_bytes = {"gib", "rem"}
    THEN row
    ELSE [row EXCEPT !.total_bytes = [gib |-> 0, rem |-> 0]]

\* a mutation of average_cost_per_gb: the divisor is the volume itself
average_cost_per_gb_unguarded(total_cost_nrs, total_data_gb) ==
    [dividend |-> total_cost_nrs, divisor |-> total_data_gb]

\* total_cost_nrs / max(total_data_gb, 1), held as its dividend and its
\* divisor
average_cost_per_gb(total_cost_nrs, total_data_gb) ==
    [dividend |-> total_cost_nrs,
     divisor  |-> IF total_data_gb.gb >= 1 THEN total_data_gb
                  ELSE [gb |-> 1, frac |-> 0]]

\* a mutation of off_peak_cost: the value of the branch without an is_peak
\* column
off_peak_cost_is_total(rows) == SumCost(rows)

\* off_peak_df['cost_nrs'].sum()
off_peak_cost(rows) == SumCost(SelectSeq(rows, IsOffPeak))

\* peak_df['cost_nrs'].sum()
peak_cost(rows) == SumCost(SelectSeq(rows, IsPeak))

\* the report dict; total_cost_nrs * 24 * 30 / 100 is computed as
\* total_cost_nrs * 36 / 5
generate_cost_report(rows) ==
    LET total_cost_nrs == SumCost(rows)
        total_data_gb  == SumGB(rows)
    IN  [generated |-> TRUE,
         summary |->
            [total_flows              |-> Len(rows),
             total_data_gb            |-> RoundGB4(total_data_gb),
             total_cost_nrs           |-> RoundDiv(total_cost_nrs, 100),
             average_cost_per_gb      |->
                 average_cost_per_gb(total_cost_nrs, total_data_gb),
             monthly_projection_nrs   |-> RoundDiv(total_cost_nrs * 36, 5),
             peak_traffic_cost_nrs    |-> RoundDiv(peak_cost(rows), 100),
             peak_traffic_percentage  |->
                 IF total_cost_nrs > 0
                 THEN RoundRatio(peak_cost(rows), total_cost_nrs, 1000)
                 ELSE 0,
             off_peak_cost_nrs        |-> RoundDiv(off_peak_cost(rows), 100)],
         breakdown           |-> CostBreakdown(rows),
         top_expensive_flows |-> TopExpensive(rows),
         top_costly_sources  |-> TopSources(rows),
         recommendations     |-> generate_recommendations(rows, total_cost_nrs),
         estimated_savings   |-> estimate_savings(rows, total_cost_nrs)]

(***************************************************************************)
(* Inputs                                                                  *)
(***************************************************************************)

\* largest whole number of GiB in a byte count
MaxGiB == 2

\* address strings handed to the calculator: internal, cloud, other
\* external, and strings that are not dotted quads
Addresses ==
    { <<"1", "9", "2", ".", "1", "6", "8", ".", "1", ".", "1", "0">>,
      <<"1", "0", ".", "0", ".", "0", ".", "5">>,
      <<"1", "7", "2", ".", "1", "6", ".", "0", ".", "1">>,
      <<"1", "7", "2", ".", "3", "1", ".", "9", ".", "9">>,
      <<"5", "2", ".", "1", ".", "2", ".", "3">>,
      <<"8", ".", "8", ".", "8", ".", "8">>,
      <<"2", "0", ".", "1", ".", "1", ".", "1">>,
      <<"1", ".", "1", ".", "1", ".", "1">>,
      <<"8", ".", "9", ".", "1", ".", "1">>,
      <<"1", "7", "2", ".", "3", "2", ".", "0", ".", "1">>,
      <<"1", "0", "0", ".", "1", ".", "1", ".", "1">>,
      <<>>,
      <<"a", "b", "c">>,
      <<"1", "0">>,
      <<"1", "0", ".">>,
      <<"1", "0", ".", "x">>,
      <<"1", "7", "2", ".", "1", "6", ".">>,
      <<"5", "2", ".">>,
      <<"8", ".", "8">>,
      <<"1", ".", "2", ".", "3">>,
      <<"1", "0", ".", "0", ".", "0", ".", "2", "5", "6">>,
      <<"5", "2", ".", "1", ".", "2", ".", "3", ".", "4">>,
      <<"x", ".", "1", ".", "1", ".", "1">> }

\* the part of a byte count below one GiB: zero, one byte, the multiples of
\* 2^25 at which round(x, 4) meets ties, half a GiB and its neighbours
Remainders ==
    {0, 1, 4321, 33554432, 67108864, 100663296, 536870912, 536870913, 1073741823}

\* byte counts, negative ones included: g * 2^30 + r
ByteCounts == {[gib |-> g, rem |-> r] : g \in (0 - 1) .. MaxGiB, r \in Remainders}

\* category strings found in a flow dict: the keys of the rate table and one
\* string that is not a key
TrafficTypes == DOMAIN pricing \cup {"UNLISTED"}

\* flow dicts handed to calculate_flow_cost_nrs; 'traffic_type' and
\* 'is_peak' are optional keys
CostFlows ==
    {[total_bytes |-> b] : b \in ByteCounts}
    \cup {[total_bytes |-> b, traffic_type |-> t] :
             b \in ByteCounts, t \in TrafficTypes}
    \cup {[total_bytes |-> b, is_peak |-> p] :
             b \in ByteCounts, p \in BOOLEAN}
    \cup {[total_bytes |-> b, traffic_type |-> t, is_peak |-> p] :
             b \in ByteCounts, t \in TrafficTypes, p \in BOOLEAN}

NoCall == [op |-> "none"]
NoReport == [generated |-> FALSE]

(***************************************************************************)
(* Direct calls of the two pure methods                                    *)
(***************************************************************************)

InitCalls ==
    /\ df = <<>>
    /\ hasHour = FALSE
    /\ pc = "loading"
    /\ report = NoReport
    /\ call = NoCall
    /\ batches = <<>>
    /\ packets = <<>>
    /\ flows = <<>>

CallClassifyTraffic(src_ip, dst_ip) ==
    /\ call' = [op |-> "classify_traffic", src_ip |-> src_ip, dst_ip |-> dst_ip,
                result |-> classify_traffic(src_ip, dst_ip)]
    /\ UNCHANGED <<df, hasHour, pc, report, batches, packets, flows>>

CallCalculateFlowCost(flow) ==
    /\ call' = [op |-> "calculate_flow_cost_nrs", flow |-> flow,
                result |-> calculate_flow_cost_nrs(flow)]
    /\ UNCHANGED <<df, hasHour, pc, report, batches, packets, flows>>

NextClassify == \E s \in Addresses, d \in Addresses : CallClassifyTraffic(s, d)

SpecClassify == InitCalls /\ [][NextClassify]_vars

NextCost == \E f \in CostFlows : CallCalculateFlowCost(f)

SpecCost == InitCalls /\ [][NextCost]_vars

(***************************************************************************)
(* Properties of classify_traffic                                          *)
(***************************************************************************)

\* the textual form of an IPv4 address: four fields separated by dots, each
\* of one to three decimal digits and of value at most 255
IsDottedQuad(s) ==
    LET dots   == {i \in 1 .. Len(s) : s[i] = "."}
        digit  == [c \in {"0", "1", "2", "3", "4", "5", "6", "7", "8", "9"} |->
                     CASE c = "0" -> 0 [] c = "1" -> 1 [] c = "2" -> 2
                       [] c = "3" -> 3 [] c = "4" -> 4 [] c = "5" -> 5
                       [] c = "6" -> 6 [] c = "7" -> 7 [] c = "8" -> 8
                       [] c = "9" -> 9]
        value(f) == IF Len(f) = 1 THEN digit[f[1]]
                    ELSE IF Len(f) = 2 THEN 10 * digit[f[1]] + digit[f[2]]
                    ELSE 100 * digit[f[1]] + 10 * digit[f[2]] + digit[f[3]]
        octet(f) == /\ Len(f) \in 1 .. 3
                    /\ \A i \in 1 .. Len(f) : f[i] \in DOMAIN digit
                    /\ value(f) <= 255
    IN  /\ Cardinality(dots) = 3
        /\ LET d1 == CHOOSE i \in dots : \A j \in dots : i <= j
               d3 == CHOOSE i \in dots : \A j \in dots : j <= i
               d2 == CHOOSE i \in dots : i # d1 /\ i # d3
           IN  /\ octet(SubSeq(s, 1, d1 - 1))
               /\ octet(SubSeq(s, d1 + 1, d2 - 1))
               /\ octet(SubSeq(s, d2 + 1, d3 - 1))
               /\ octet(SubSeq(s, d3 + 1, Len(s)))

\* C1: every classification is the category of the first matching rule in
\* the order INTERNAL (both ends internal), CLOUD_EGRESS (internal source,
\* cloud destination), INTERNET_EGRESS (internal source), INTERNET_INGRESS
\* (external source, internal destination), OTHER; so an external source
\* with a cloud destination is OTHER and a cloud source with an internal
\* destination is INTERNET_INGRESS.
C1_FirstMatchingRule ==
    call.op = "classify_traffic" =>
        LET srcInt   == AnyPrefix(call.src_ip, internal_prefixes)
            dstInt   == AnyPrefix(call.dst_ip, internal_prefixes)
            srcCloud == AnyPrefix(call.src_ip, cloud_prefixes)
            dstCloud == AnyPrefix(call.dst_ip, cloud_prefixes)
        IN  /\ call.result =
                   (CASE srcInt /\ dstInt    -> "INTERNAL"
                      [] srcInt /\ ~dstInt /\ dstCloud  -> "CLOUD_EGRESS"
                      [] srcInt /\ ~dstInt /\ ~dstCloud -> "INTERNET_EGRESS"
                      [] ~srcInt /\ dstInt   -> "INTERNET_INGRESS"
                      [] ~srcInt /\ ~dstInt  -> "OTHER")
            /\ (~srcInt /\ ~dstInt /\ dstCloud => call.result = "OTHER")
            /\ (srcCloud /\ dstInt => call.result = "INTERNET_INGRESS")

\* C1 witness: an external source and a cloud destination, classified OTHER
C1_Witness ==
    /\ call.op = "classify_traffic"
    /\ ~AnyPrefix(call.src_ip, internal_prefixes)
    /\ AnyPrefix(call.dst_ip, cloud_prefixes)
    /\ call.result = "OTHER"

\* C2 as stated: a malformed address matches no internal and no cloud
\* prefix, and a flow with a malformed source or destination is OTHER.
C2_MalformedIsOther ==
    call.op = "classify_traffic" =>
        /\ \A ip \in {call.src_ip, call.dst_ip} :
               ~IsDottedQuad(ip) => /\ ~AnyPrefix(ip, internal_prefixes)
                                    /\ ~AnyPrefix(ip, cloud_prefixes)
        /\ (~IsDottedQuad(call.src_ip) \/ ~IsDottedQuad(call.dst_ip)
               => call.result = "OTHER")

\* C2 amended: a flow with a malformed source or destination gets one of the
\* five categories, and it is OTHER exactly when neither address starts with
\* an internal prefix.
C2_MalformedFallsThrough ==
    (/\ call.op = "classify_traffic"
     /\ (~IsDottedQuad(call.src_ip) \/ ~IsDottedQuad(call.dst_ip))) =>
        /\ call.result \in {"INTERNAL", "CLOUD_EGRESS", "INTERNET_EGRESS",
                            "INTERNET_INGRESS", "OTHER"}
        /\ call.result = "OTHER" <=>
               /\ ~AnyPrefix(call.src_ip, internal_prefixes)
               /\ ~AnyPrefix(call.dst_ip, internal_prefixes)

\* C2 witness: two malformed addresses that start with no prefix, classified
\* OTHER
C2_Witness ==
    /\ call.op = "classify_traffic"
    /\ ~IsDottedQuad(call.src_ip)
    /\ ~IsDottedQuad(call.dst_ip)
    /\ call.src_ip # call.dst_ip
    /\ ~AnyPrefix(call.src_ip, internal_prefixes)
    /\ ~AnyPrefix(call.dst_ip, cloud_prefixes)
    /\ call.result = "OTHER"

(***************************************************************************)
(* Properties of calculate_flow_cost_nrs                                   *)
(***************************************************************************)

\* C3: the cost of a flow is (total_bytes / 2^30) x rate, times 1.5 exactly
\* when is_peak is true, rounded to 4 decimals, at the rates CLOUD_EGRESS
\* 85, INTERNET_EGRESS 75, INTERNET_INGRESS 15, INTERNAL 0, OTHER 10: the
\* result r (in 1e-4 NRS) is an integer nearest to
\* bytes x rate x (3 or 2) x 10^4 / 2^31.
C3_CostFormula ==
    (/\ call.op = "calculate_flow_cost_nrs"
     /\ "traffic_type" \in DOMAIN call.flow
     /\ call.flow.traffic_type \in {"CLOUD_EGRESS", "INTERNET_EGRESS",
                                    "INTERNET_INGRESS", "INTERNAL", "OTHER"}) =>
        LET t     == call.flow.traffic_type
            rate  == CASE t = "CLOUD_EGRESS"     -> 85
                       [] t = "INTERNET_EGRESS"  -> 75
                       [] t = "INTERNET_INGRESS" -> 15
                       [] t = "INTERNAL"         -> 0
                       [] t = "OTHER"            -> 10
            peak  == "is_peak" \in DOMAIN call.flow /\ call.flow.is_peak
            exact == MulShift(call.flow.total_bytes,
                              rate * (IF peak THEN 3 ELSE 2) * 625)
        IN  \/ call.result = exact.int /\ exact.frac <= 67108864
            \/ call.result = exact.int + 1 /\ exact.frac >= 67108864

\* C3 witness: 2 GiB of CLOUD_EGRESS at peak cost 255.0000 NRS
C3_Witness ==
    /\ call.op = "calculate_flow_cost_nrs"
    /\ call.flow = [total_bytes |-> [gib |-> 2, rem |-> 0],
                    traffic_type |-> "CLOUD_EGRESS", is_peak |-> TRUE]
    /\ call.result = 2550000

\* C4: a flow of zero or negative byte count costs 0, and no cost is
\* negative.
C4_NeverNegative ==
    call.op = "calculate_flow_cost_nrs" =>
        LET b == call.flow.total_bytes
        IN  /\ (b.gib < 0 \/ (b.gib = 0 /\ b.rem = 0) => call.result = 0)
            /\ call.result >= 0

\* C5: the cost at peak differs from 1.5 times the rounded off-peak cost of
\* the same category and volume by at most 1e-4 (compared in halves of
\* 1e-4).
C5_PeakIsSurcharged ==
    (/\ call.op = "calculate_flow_cost_nrs"
     /\ "is_peak" \in DOMAIN call.flow
     /\ call.flow.is_peak) =>
        LET offPeak == calculate_flow_cost_nrs([call.flow EXCEPT !.is_peak = FALSE])
            d       == 2 * call.result - 3 * offPeak
        IN  d \in (0 - 2) .. 2

\* C5 witness: a peak cost above 1 NRS that is off 1.5 times the rounded
\* off-peak cost by exactly 1e-4
C5_Witness ==
    /\ call.op = "calculate_flow_cost_nrs"
    /\ "is_peak" \in DOMAIN call.flow
    /\ call.flow.is_peak
    /\ call.result > 10000
    /\ 2 * call.result
         - 3 * calculate_flow_cost_nrs([call.flow EXCEPT !.is_peak = FALSE]) = 2

\* C6: for a fixed category and peak flag, no larger byte count costs less,
\* after rounding.
C6_MonotoneInVolume ==
    call.op = "calculate_flow_cost_nrs" =>
        \A b2 \in ByteCounts :
            LET b1 == call.flow.total_bytes
            IN  (b1.gib < b2.gib \/ (b1.gib = b2.gib /\ b1.rem <= b2.rem)) =>
                    call.result <=
                        calculate_flow_cost_nrs([call.flow EXCEPT !.total_bytes = b2])

\* C6 witness: a costed byte count with a larger byte count of the same cost
\* after rounding and a larger byte count of greater cost
C6_Witness ==
    /\ call.op = "calculate_flow_cost_nrs"
    /\ call.flow.total_bytes.gib >= 0
    /\ call.result > 0
    /\ \E b2 \in ByteCounts :
           /\ call.flow.total_bytes.gib = b2.gib
           /\ call.flow.total_bytes.rem < b2.rem
           /\ calculate_flow_cost_nrs([call.flow EXCEPT !.total_bytes = b2])
                  = call.result
    /\ \E b2 \in ByteCounts :
           /\ call.flow.total_bytes.gib < b2.gib
           /\ calculate_flow_cost_nrs([call.flow EXCEPT !.total_bytes = b2])
                  > call.result

\* C8: a flow whose category is missing or is not a key of the rate table
\* is priced as the same flow of category OTHER.
C8_UnlistedIsOther ==
    (/\ call.op = "calculate_flow_cost_nrs"
     /\ ("traffic_type" \in DOMAIN call.flow
            => call.flow.traffic_type \notin DOMAIN pricing)) =>
        call.result =
            calculate_flow_cost_nrs(
                [k \in DOMAIN call.flow \cup {"traffic_type"} |->
                    IF k = "traffic_type" THEN "OTHER" ELSE call.flow[k]])

\* C8 witness: half a GiB of an unlisted category at peak costs
\* 0.5 x 10 x 1.5 = 7.5 NRS
C8_Witness ==
    /\ call.op = "calculate_flow_cost_nrs"
    /\ call.flow = [total_bytes |-> [gib |-> 0, rem |-> 536870912],
                    traffic_type |-> "UNLISTED", is_peak |-> TRUE]
    /\ call.result = 75000

(***************************************************************************)
(* Enrichment of a loaded dataframe                                        *)
(***************************************************************************)

\* largest number of rows of the dataframe that is only enriched
MaxEnrichFlows == 1

\* rows of the enriched dataframes: internal and external sources, internal
\* and cloud destinations, every hour of the day
EnrichInputs ==
    {[src_ip |-> s, dst_ip |-> d, total_bytes |-> b] :
        s \in { <<"1", "9", "2", ".", "1", "6", "8", ".", "1", ".", "1", "0">>,
                <<"1", "7", "2", ".", "3", "1", ".", "9", ".", "9">>,
                <<"1", ".", "1", ".", "1", ".", "1">> },
        d \in { <<"1", "0", ".", "0", ".", "0", ".", "5">>,
                <<"5", "2", ".", "1", ".", "2", ".", "3">> },
        b \in { [gib |-> 0, rem |-> 0],
                [gib |-> 0, rem |-> 536870913],
                [gib |-> MaxGiB, rem |-> 4321] }}

Hours == 0 .. 23

\* the state after pd.read_csv: the 'hour' column is there or not
InitPipeline ==
    /\ df = <<>>
    /\ hasHour \in BOOLEAN
    /\ pc = "loading"
    /\ report = NoReport
    /\ call = NoCall
    /\ batches = <<>>
    /\ packets = <<>>
    /\ flows = <<>>

\* one more row of the input file
LoadFlow(inputs, hours, limit) ==
    /\ pc = "loading"
    /\ Len(df) < limit
    /\ \E f \in inputs :
          IF hasHour
          THEN \E h \in hours : df' = Append(df, SetColumn(f, "hour", h))
          ELSE df' = Append(df, f)
    /\ UNCHANGED <<hasHour, pc, report, call, batches, packets, flows>>

EnrichFlowsWithCosts ==
    /\ pc = "loading"
    /\ df' = enrich_flows_with_costs(df, hasHour)
    /\ pc' = "enriched"
    /\ UNCHANGED <<hasHour, report, call, batches, packets, flows>>

NextEnrich ==
    \/ LoadFlow(EnrichInputs, Hours, MaxEnrichFlows)
    \/ EnrichFlowsWithCosts

SpecEnrich == InitPipeline /\ [][NextEnrich]_vars

\* C7: a flow whose source and destination both start with an internal
\* prefix is INTERNAL and, once enriched, costs 0 whatever its volume and
\* peak flag.
C7_InternalIsFree ==
    pc = "enriched" =>
        \A i \in 1 .. Len(df) :
            (/\ AnyPrefix(df[i].src_ip, internal_prefixes)
             /\ AnyPrefix(df[i].dst_ip, internal_prefixes)) =>
                /\ df[i].traffic_type = "INTERNAL"
                /\ df[i].cost_nrs = 0

\* C7 witness: an enriched internal flow of more than 2 GB at peak, costing 0
C7_Witness ==
    /\ pc = "enriched"
    /\ \E i \in 1 .. Len(df) :
          /\ AnyPrefix(df[i].src_ip, internal_prefixes)
          /\ AnyPrefix(df[i].dst_ip, internal_prefixes)
          /\ df[i].total_bytes.gib >= 2
          /\ df[i].is_peak
          /\ df[i].cost_nrs = 0

\* C9: enrichment sets is_peak exactly for the hours 9 <= h < 23, and to
\* false on every flow when there is no hour column.
C9_PeakWindow ==
    pc = "enriched" =>
        \A i \in 1 .. Len(df) :
            /\ df[i].is_peak \in BOOLEAN
            /\ df[i].is_peak <=>
                   (hasHour /\ 9 <= df[i].hour /\ df[i].hour < 23)

\* C9 witness: an enriched flow of hour 23, off peak
C9_Witness ==
    /\ pc = "enriched"
    /\ hasHour
    /\ \E i \in 1 .. Len(df) : df[i].hour = 23 /\ ~df[i].is_peak

(***************************************************************************)
(* The pipeline of main: load, enrich, report                              *)
(***************************************************************************)

\* largest number of rows of the reported dataframe
MaxFlows == 2

\* rows of the reported dataframes: cloud egress, internal, internet egress
\* and ingress flows of half a GB and of MaxGiB GB
ReportInputs ==
    {[src_ip |-> p[1], dst_ip |-> p[2], total_bytes |-> b] :
        p \in { << <<"1", "9", "2", ".", "1", "6", "8", ".", "1", ".", "1", "0">>,
                   <<"5", "2", ".", "1", ".", "2", ".", "3">> >>,
                << <<"1", "9", "2", ".", "1", "6", "8", ".", "1", ".", "1", "0">>,
                   <<"1", "0", ".", "0", ".", "0", ".", "5">> >>,
                << <<"1", "0", ".", "0", ".", "0", ".", "5">>,
                   <<"1", ".", "1", ".", "1", ".", "1">> >>,
                << <<"1", ".", "1", ".", "1", ".", "1">>,
                   <<"1", "0", ".", "0", ".", "0", ".", "5">> >> },
        b \in { [gib |-> 0, rem |-> 536870912],
                [gib |-> MaxGiB, rem |-> 0] }}

\* the hours that flow_enricher.py writes: 2 PM and 3 AM
ReportHours == {3, 14}

GenerateCostReport ==
    /\ pc = "enriched"
    /\ df' = [i \in 1 .. Len(df) |-> CoerceBytes(df[i])]
    /\ report' = generate_cost_report(df')
    /\ pc' = "reported"
    /\ UNCHANGED <<hasHour, call, batches, packets, flows>>

Next ==
    \/ LoadFlow(ReportInputs, ReportHours, MaxFlows)
    \/ EnrichFlowsWithCosts
    \/ GenerateCostReport

Spec == InitPipeline /\ [][Next]_vars

MaxExtraFlows == 3

\* the first rows of a flows file: two large flows, two pairs of flows of
\* equal cost from different sources, four sources
FirstFlows ==
    << [src_ip |-> <<"1", "9", "2", ".", "1", "6", "8", ".", "1", ".", "1", "0">>,
        dst_ip |-> <<"5", "2", ".", "1", ".", "2", ".", "3">>,
        total_bytes |-> [gib |-> 1, rem |-> 0], hour |-> 14],
       [src_ip |-> <<"1", "0", ".", "0", ".", "0", ".", "5">>,
        dst_ip |-> <<"1", ".", "1", ".", "1", ".", "1">>,
        total_bytes |-> [gib |-> 0, rem |-> 536870912], hour |-> 3],
       [src_ip |-> <<"1", "7", "2", ".", "1", "6", ".", "0", ".", "1">>,
        dst_ip |-> <<"5", "2", ".", "1", ".", "2", ".", "3">>,
        total_bytes |-> [gib |-> 0, rem |-> 536870912], hour |-> 3],
       [src_ip |-> <<"1", "9", "2", ".", "1", "6", "8", ".", "1", ".", "1", "0">>,
        dst_ip |-> <<"1", "0", ".", "0", ".", "0", ".", "5">>,
        total_bytes |-> [gib |-> 0, rem |-> 536870912], hour |-> 14],
       [src_ip |-> <<"1", ".", "1", ".", "1", ".", "1">>,
        dst_ip |-> <<"1", "0", ".", "0", ".", "0", ".", "5">>,
        total_bytes |-> [gib |-> 0, rem |-> 536870913], hour |-> 3],
       [src_ip |-> <<"1", "0", ".", "0", ".", "0", ".", "5">>,
        dst_ip |-> <<"1", ".", "1", ".", "1", ".", "1">>,
        total_bytes |-> [gib |-> 0, rem |-> 536870912], hour |-> 14],
       [src_ip |-> <<"1", "7", "2", ".", "1", "6", ".", "0", ".", "1">>,
        dst_ip |-> <<"1", ".", "1", ".", "1", ".", "1">>,
        total_bytes |-> [gib |-> 0, rem |-> 536870912], hour |-> 3],
       [src_ip |-> <<"1", "0", ".", "0", ".", "0", ".", "5">>,
        dst_ip |-> <<"1", "9", "2", ".", "1", "6", "8", ".", "1", ".", "1", "0">>,
        total_bytes |-> [gib |-> 0, rem |-> 536870912], hour |-> 3] >>

\* the rows that follow: a large cloud egress flow, a large ingress flow and
\* a flow of 2^25 bytes between external hosts, whose cost has four
\* decimals, each from a source of its own
ExtraInputs ==
    { [src_ip |-> <<"1", "7", "2", ".", "3", "1", ".", "9", ".", "9">>,
       dst_ip |-> <<"5", "2", ".", "1", ".", "2", ".", "3">>,
       total_bytes |-> [gib |-> 1, rem |-> 0]],
      [src_ip |-> <<"8", ".", "9", ".", "1", ".", "1">>,
       dst_ip |-> <<"1", "0", ".", "0", ".", "0", ".", "5">>,
       total_bytes |-> [gib |-> 1, rem |-> 0]],
      [src_ip |-> <<"1", "0", "0", ".", "1", ".", "1", ".", "1">>,
       dst_ip |-> <<"1", ".", "1", ".", "1", ".", "1">>,
       total_bytes |-> [gib |-> 0, rem |-> 33554432]] }

\* the state after pd.read_csv has read the first rows, with or without the
\* 'hour' column
InitManyFlows ==
    /\ hasHour \in BOOLEAN
    /\ df = IF hasHour THEN FirstFlows
            ELSE [i \in 1 .. Len(FirstFlows) |->
                     [src_ip      |-> FirstFlows[i].src_ip,
                      dst_ip      |-> FirstFlows[i].dst_ip,
                      total_bytes |-> FirstFlows[i].total_bytes]]
    /\ pc = "loading"
    /\ report = NoReport
    /\ call = NoCall
    /\ batches = <<>>
    /\ packets = <<>>
    /\ flows = <<>>

NextManyFlows ==
    \/ LoadFlow(ExtraInputs, ReportHours, Len(FirstFlows) + MaxExtraFlows)
    \/ EnrichFlowsWithCosts
    \/ GenerateCostReport

SpecManyFlows == InitManyFlows /\ [][NextManyFlows]_vars

\* the place of row i of the dataframe when the rows are put in descending
\* order of cost, rows of equal cost in their original order
CostRank(i) ==
    1 + Cardinality({j \in 1 .. Len(df) :
                        \/ df[j].cost_nrs > df[i].cost_nrs
                        \/ (df[j].cost_nrs = df[i].cost_nrs /\ j < i)})

\* C11: the top-expensive-flows list has min(10, number of flows) entries,
\* in descending order of cost with flows of equal cost in their original
\* order, and every listed flow costs at least as much as every flow that is
\* not listed.
C11_TopExpensiveFlows ==
    pc = "reported" =>
        LET top == report.top_expensive_flows
        IN  /\ Len(top) = IF Len(df) < 10 THEN Len(df) ELSE 10
            /\ \A i \in 1 .. Len(df) :
                  IF CostRank(i) <= 10
                  THEN top[CostRank(i)] =
                           [src_ip       |-> df[i].src_ip,
                            dst_ip       |-> df[i].dst_ip,
                            traffic_type |-> df[i].traffic_type,
                            total_gb     |-> df[i].total_gb,
                            cost_nrs     |-> df[i].cost_nrs]
                  ELSE \A k \in 1 .. Len(top) :
                           top[k].cost_nrs >= df[i].cost_nrs

\* C11 witness: a report of more than ten flows in which two flows of equal
\* cost and different sources lie on either side of the cut
C11_Witness ==
    /\ pc = "reported"
    /\ Len(df) > 10
    /\ Len(report.top_expensive_flows) = 10
    /\ \E i, j \in 1 .. Len(df) :
          /\ i < j
          /\ df[i].cost_nrs = df[j].cost_nrs
          /\ df[i].src_ip # df[j].src_ip
          /\ CostRank(i) = 10
          /\ CostRank(j) = 11
          /\ report.top_expensive_flows[10].src_ip = df[i].src_ip

\* the sum of the cost entries of a breakdown over the categories keys
RECURSIVE BreakdownCost(_, _)
BreakdownCost(breakdown, keys) ==
    IF keys = {} THEN 0
    ELSE LET t == CHOOSE x \in keys : TRUE
         IN  breakdown[t].cost_nrs + BreakdownCost(breakdown, keys \ {t})

\* the sum of the flow counts of a breakdown over the categories keys
RECURSIVE BreakdownFlows(_, _)
BreakdownFlows(breakdown, keys) ==
    IF keys = {} THEN 0
    ELSE LET t == CHOOSE x \in keys : TRUE
         IN  breakdown[t].src_ip + BreakdownFlows(breakdown, keys \ {t})

\* C12: for every non-empty input the per-category cost entries of the
\* breakdown add up to the total cost, within the half cent by which the
\* reported total is rounded, and every flow is counted in exactly one
\* category.
C12_BreakdownAddsUp ==
    (pc = "reported" /\ Len(df) > 0) =>
        LET breakdown == report.breakdown
            keys      == DOMAIN breakdown
            gap       == BreakdownCost(breakdown, keys)
                             - 100 * report.summary.total_cost_nrs
        IN  /\ BreakdownCost(breakdown, keys) = SumCost(df)
            /\ gap \in (0 - 50) .. 50
            /\ BreakdownFlows(breakdown, keys) = report.summary.total_flows
            /\ \A i \in 1 .. Len(df) : df[i].traffic_type \in keys
            /\ \A t \in keys :
                  breakdown[t].src_ip =
                      Cardinality({i \in 1 .. Len(df) : df[i].traffic_type = t})

\* C12 witness: a report over five categories, one of them with several
\* flows, whose total cost is not a whole number of cents
C12_Witness ==
    /\ pc = "reported"
    /\ Cardinality(DOMAIN report.breakdown) = 5
    /\ \E t \in DOMAIN report.breakdown : report.breakdown[t].src_ip > 2
    /\ SumCost(df) % 100 # 0
    /\ BreakdownCost(report.breakdown, DOMAIN report.breakdown) = SumCost(df)

\* C13: the reported peak cost and off-peak cost add up to the reported
\* total cost, within the cent that rounding the three amounts to two
\* decimals can open.
C13_PeakPlusOffPeak ==
    pc = "reported" =>
        /\ peak_cost(df) + off_peak_cost(df) = SumCost(df)
        /\ report.summary.peak_traffic_cost_nrs
               + report.summary.off_peak_cost_nrs
               - report.summary.total_cost_nrs \in (0 - 1) .. 1

\* C13 witness: a report with peak and off-peak flows whose two rounded
\* amounts miss the rounded total by a cent
C13_Witness ==
    /\ pc = "reported"
    /\ report.summary.peak_traffic_cost_nrs > 0
    /\ report.summary.off_peak_cost_nrs > 0
    /\ report.summary.peak_traffic_cost_nrs + report.summary.off_peak_cost_nrs
           # report.summary.total_cost_nrs

\* C14: over flows of non-negative cost no ratio of the report has a zero
\* divisor: the average cost per GB divides by max(total GB, 1), the peak
\* percentage and the savings percentage are 0 when the total cost is 0, a
\* cloud egress entry is only there when the total cost is not 0, and the
\* peak hour entry, whose description divides the peak cost by the total
\* cost without a guard, is only built when the total cost is not 0.
C14_NoZeroDivisor ==
    pc = "reported" =>
        LET average == report.summary.average_cost_per_gb
            recs    == report.recommendations
        IN  /\ \A i \in 1 .. Len(df) : df[i].cost_nrs >= 0
            /\ average.divisor.gb >= 1
            /\ average.divisor =
                   IF SumGB(df).gb >= 1 THEN SumGB(df) ELSE [gb |-> 1, frac |-> 0]
            /\ SumCost(df) = 0 =>
                   /\ report.summary.peak_traffic_percentage = 0
                   /\ report.estimated_savings.savings_percentage = 0
            /\ \A k \in 1 .. Len(recs) :
                   /\ recs[k].id = "CLOUD_EGRESS_OPT" => SumCost(df) # 0
                   /\ recs[k].id = "PEAK_HOUR_OPT" =>
                          /\ recs[k].description.divisor = SumCost(df)
                          /\ recs[k].description.divisor # 0

\* C14 witness: a report of flows at peak hours whose total cost and total
\* volume below one GB would both be zero divisors
C14_Witness ==
    /\ pc = "reported"
    /\ Len(df) > 0
    /\ \E i \in 1 .. Len(df) : df[i].is_peak
    /\ SumCost(df) = 0
    /\ SumGB(df).gb = 0
    /\ report.summary.average_cost_per_gb.divisor = [gb |-> 1, frac |-> 0]
    /\ \A k \in 1 .. Len(report.recommendations) :
           report.recommendations[k].id # "PEAK_HOUR_OPT"

(***************************************************************************)
(* Reports of flows whose costs lie at the thresholds of the report        *)
(***************************************************************************)

\* largest number of rows of a dataframe at the thresholds
MaxThresholdFlows == 2

\* cloud egress flows that cost 50.0000 and 50.0001 NRS off peak, and a flow
\* between external hosts that costs 0.3125 NRS off peak
ThresholdInputs ==
    { [src_ip |-> <<"1", "9", "2", ".", "1", "6", "8", ".", "1", ".", "1", "0">>,
       dst_ip |-> <<"5", "2", ".", "1", ".", "2", ".", "3">>,
       total_bytes |-> [gib |-> 0, rem |-> 631612838]],
      [src_ip |-> <<"1", "9", "2", ".", "1", "6", "8", ".", "1", ".", "1", "0">>,
       dst_ip |-> <<"5", "2", ".", "1", ".", "2", ".", "3">>,
       total_bytes |-> [gib |-> 0, rem |-> 631614000]],
      [src_ip |-> <<"1", ".", "1", ".", "1", ".", "1">>,
       dst_ip |-> <<"8", ".", "9", ".", "1", ".", "1">>,
       total_bytes |-> [gib |-> 0, rem |-> 33554432]] }

NextThreshold ==
    \/ LoadFlow(ThresholdInputs, ReportHours, MaxThresholdFlows)
    \/ EnrichFlowsWithCosts
    \/ GenerateCostReport

SpecThreshold == InitPipeline /\ [][NextThreshold]_vars

\* C15: the immediate savings are the sum of the savings of exactly the
\* recommendations of the same report, the monthly savings are the
\* immediate savings times 24 * 30, and the savings percentage is the
\* immediate savings over the total cost times 100 (to the 0.1 % that the
\* report keeps), and 0 when the total cost is 0.
C15_SavingsEstimate ==
    pc = "reported" =>
        LET savings == report.estimated_savings
        IN  /\ savings.immediate_savings_nrs = SumSavings(report.recommendations)
            /\ savings.monthly_savings_nrs = savings.immediate_savings_nrs * 24 * 30
            /\ savings.savings_percentage =
                   IF SumCost(df) = 0 THEN 0
                   ELSE RoundRatio(savings.immediate_savings_nrs, SumCost(df), 100000)

\* the cost that the breakdown of the report gives for a category, 0 when
\* the category has no flow
CategoryCost(t) ==
    IF t \in DOMAIN report.breakdown THEN report.breakdown[t].cost_nrs ELSE 0

\* the places of the recommendation list that hold the identifier id
EntriesOf(id) ==
    {k \in 1 .. Len(report.recommendations) : report.recommendations[k].id = id}

C18_LargeFlowOpt ==
    pc = "reported" =>
        LET OverHalfGB(r) == r.total_bytes.gib >= 1
                                 \/ (r.total_bytes.gib = 0
                                        /\ r.total_bytes.rem > 536870912)
            large      == SelectSeq(df, OverHalfGB)
            large_cost == SumCost(large)
        IN  /\ EntriesOf("LARGE_FLOW_OPT") # {} <=> Len(large) >= 4
            /\ Len(large) = 3 => EntriesOf("LARGE_FLOW_OPT") = {}
            /\ \A k \in EntriesOf("LARGE_FLOW_OPT") :
                   /\ report.recommendations[k].priority = "MEDIUM"
                   /\ 1000 * report.recommendations[k].potential_savings_nrs
                          - 2 * large_cost \in (0 - 500) .. 500

\* C18 witness: a report of exactly four large flows among smaller flows
\* that cost something, with the entry and savings of 20% of the large
\* flows' cost
C18_Witness ==
    /\ pc = "reported"
    /\ Len(SelectSeq(df, IsLargeFlow)) = 4
    /\ SumCost(SelectSeq(df, IsLargeFlow)) < SumCost(df)
    /\ \E k \in EntriesOf("LARGE_FLOW_OPT") :
           /\ report.recommendations[k].priority = "MEDIUM"
           /\ 1000 * report.recommendations[k].potential_savings_nrs
                  = 2 * SumCost(SelectSeq(df, IsLargeFlow))

\* the place of an identifier in the order in which
\* _generate_recommendations appends its entries
EntryOrder(id) ==
    CASE id = "CLOUD_EGRESS_OPT"   -> 1
      [] id = "PEAK_HOUR_OPT"      -> 2
      [] id = "LARGE_FLOW_OPT"     -> 3
      [] id = "TRAFFIC_MONITORING" -> 4
      [] id = "BANDWIDTH_UPGRADE"  -> 5
      [] OTHER                     -> 0

\* C19: the recommendation list ends with the LOW-priority entries
\* TRAFFIC_MONITORING (savings 15% of the total cost) and then
\* BANDWIDTH_UPGRADE (savings 25% of the total cost), both to the cent; the
\* conditional entries precede them in the order CLOUD_EGRESS_OPT,
\* PEAK_HOUR_OPT, LARGE_FLOW_OPT; the list has 2 to 5 entries and no
\* identifier twice.
C19_RecommendationOrder ==
    pc = "reported" =>
        LET recs  == report.recommendations
            n     == Len(recs)
            total == SumCost(df)
        IN  /\ n \in 2 .. 5
            /\ recs[n - 1].id = "TRAFFIC_MONITORING"
            /\ recs[n - 1].priority = "LOW"
            /\ 10000 * recs[n - 1].potential_savings_nrs - 15 * total
                   \in (0 - 5000) .. 5000
            /\ recs[n].id = "BANDWIDTH_UPGRADE"
            /\ recs[n].priority = "LOW"
            /\ 10000 * recs[n].potential_savings_nrs - 25 * total
                   \in (0 - 5000) .. 5000
            /\ \A k \in 1 .. n : EntryOrder(recs[k].id) > 0
            /\ \A k \in 1 .. n - 1 :
                   EntryOrder(recs[k].id) < EntryOrder(recs[k + 1].id)

\* C19 witness: a report with all five entries
C19_Witness ==
    /\ pc = "reported"
    /\ Len(report.recommendations) = 5
    /\ report.recommendations[1].id = "CLOUD_EGRESS_OPT"
    /\ report.recommendations[2].id = "PEAK_HOUR_OPT"
    /\ report.recommendations[3].id = "LARGE_FLOW_OPT"
    /\ report.recommendations[5].potential_savings_nrs > 0

\* the cost of the flows of the dataframe that come from src_ip
SourceCost(src_ip) ==
    LET FromSource(r) == r.src_ip = src_ip
    IN  SumCost(SelectSeq(df, FromSource))

\* C20: the top-costly-sources list holds one entry per source address with
\* the cost summed over all flows of that source, for the min(5, number of
\* distinct sources) sources of greatest summed cost, in descending order
\* of summed cost; every listed source costs at least as much as every
\* source that is not listed.
C20_TopCostlySources ==
    pc = "reported" =>
        LET top     == report.top_costly_sources
            sources == {df[i].src_ip : i \in 1 .. Len(df)}
            listed  == {top[k].src_ip : k \in 1 .. Len(top)}
        IN  /\ Len(top) = IF Cardinality(sources) < 5 THEN Cardinality(sources)
                          ELSE 5
            /\ listed \subseteq sources
            /\ Cardinality(listed) = Len(top)
            /\ \A k \in 1 .. Len(top) :
                   top[k].cost_nrs = SourceCost(top[k].src_ip)
            /\ \A k \in 1 .. Len(top) - 1 :
                   top[k].cost_nrs >= top[k + 1].cost_nrs
            /\ \A s \in sources \ listed :
                   \A k \in 1 .. Len(top) : top[k].cost_nrs >= SourceCost(s)

\* C20 witness: a report over seven sources, one of them with several
\* flows, that leaves out a source of positive cost
C20_Witness ==
    /\ pc = "reported"
    /\ Cardinality({df[i].src_ip : i \in 1 .. Len(df)}) = 7
    /\ Len(report.top_costly_sources) = 5
    /\ \E i, j \in 1 .. Len(df) :
           /\ i # j
           /\ df[i].src_ip = df[j].src_ip
           /\ \E k \in 1 .. 5 : df[i].src_ip = report.top_costly_sources[k].src_ip
           /\ df[i].cost_nrs > 0
           /\ df[j].cost_nrs > 0
    /\ \E i \in 1 .. Len(df) :
           /\ \A k \in 1 .. 5 : report.top_costly_sources[k].src_ip # df[i].src_ip
           /\ SourceCost(df[i].src_ip) > 0

(***************************************************************************)
(* The three flows of the worked example                                   *)
(***************************************************************************)

\* largest number of rows of a dataframe made of the example's flows
MaxExampleFlows == 3

\* internal to cloud, 2 GB; internal to internal, 5 GB; internal to an
\* external address that is not a cloud one, 1 GB
ExampleInputs ==
    { [src_ip |-> <<"1", "9", "2", ".", "1", "6", "8", ".", "1", ".", "1", "0">>,
       dst_ip |-> <<"5", "2", ".", "1", ".", "2", ".", "3">>,
       total_bytes |-> [gib |-> 2, rem |-> 0]],
      [src_ip |-> <<"1", "9", "2", ".", "1", "6", "8", ".", "1", ".", "1", "0">>,
       dst_ip |-> <<"1", "0", ".", "0", ".", "0", ".", "5">>,
       total_bytes |-> [gib |-> 5, rem |-> 0]],
      [src_ip |-> <<"1", "0", ".", "0", ".", "0", ".", "5">>,
       dst_ip |-> <<"1", ".", "1", ".", "1", ".", "1">>,
       total_bytes |-> [gib |-> 1, rem |-> 0]] }

NextExample ==
    \/ LoadFlow(ExampleInputs, ReportHours, MaxExampleFlows)
    \/ EnrichFlowsWithCosts
    \/ GenerateCostReport

SpecExample == InitPipeline /\ [][NextExample]_vars

\* the dataframe holds the three flows of the example in their order: the
\* cloud flow at a peak hour, the two others off peak
IsExample ==
    /\ hasHour
    /\ Len(df) = 3
    /\ AnyPrefix(df[1].src_ip, internal_prefixes)
    /\ AnyPrefix(df[1].dst_ip, cloud_prefixes)
    /\ df[1].total_bytes = [gib |-> 2, rem |-> 0]
    /\ df[1].hour \in peak_hours
    /\ AnyPrefix(df[2].src_ip, internal_prefixes)
    /\ AnyPrefix(df[2].dst_ip, internal_prefixes)
    /\ df[2].total_bytes = [gib |-> 5, rem |-> 0]
    /\ df[2].hour \notin peak_hours
    /\ AnyPrefix(df[3].src_ip, internal_prefixes)
    /\ ~AnyPrefix(df[3].dst_ip, internal_prefixes)
    /\ ~AnyPrefix(df[3].dst_ip, cloud_prefixes)
    /\ df[3].total_bytes = [gib |-> 1, rem |-> 0]
    /\ df[3].hour \notin peak_hours

\* what the example says of the costs and of every figure of the report but
\* the peak percentage
ExampleFigures ==
    /\ df[1].cost_nrs = 2550000
    /\ df[2].cost_nrs = 0
    /\ df[3].cost_nrs = 750000
    /\ report.summary.total_cost_nrs = 33000
    /\ report.summary.total_data_gb = 80000
    /\ Cardinality(DOMAIN report.breakdown) = 3
    /\ report.top_expensive_flows[1].traffic_type = "CLOUD_EGRESS"
    /\ report.top_expensive_flows[1].cost_nrs = 2550000
    /\ report.summary.peak_traffic_cost_nrs = 25500
    /\ report.summary.off_peak_cost_nrs = 7500

\* C21, as claimed: for the three flows of the example the costs are
\* 255.0000, 0.0000 and 75.0000, and the report gives a total cost of 330, a
\* total of 8 GB, a breakdown of 3 categories, the CLOUD_EGRESS flow as the
\* most expensive flow, a peak cost of 255 with a peak percentage of 77.27
\* and an off-peak cost of 75.  The percentage of the report is kept in
\* 0.1 %, so 77.27 would be 772.7 of its units.
C21_ExampleAsClaimed ==
    (pc = "reported" /\ IsExample) =>
        /\ ExampleFigures
        /\ 10 * report.summary.peak_traffic_percentage = 7727

\* C21, amended: the same figures, with the peak percentage that the report
\* holds, 77.3: 255 / 330 * 100 rounded to one decimal.
C21_ExampleReport ==
    (pc = "reported" /\ IsExample) =>
        /\ ExampleFigures
        /\ report.summary.peak_traffic_percentage = 773

\* C21 witness: the report of the three flows of the example
C21_Witness ==
    /\ pc = "reported"
    /\ IsExample
    /\ report.summary.total_flows = 3
    /\ report.summary.peak_traffic_percentage = 773

(***************************************************************************)
(* Dataframes with an empty byte count cell                                *)
(***************************************************************************)

\* largest number of rows of a dataframe with empty cells
MaxFrameFlows == 2

\* a cloud egress flow of half a GB, an ingress flow of one GB, and an
\* internet egress flow whose byte count cell is empty, read as NaN
FrameInputs ==
    { [src_ip |-> <<"1", "9", "2", ".", "1", "6", "8", ".", "1", ".", "1", "0">>,
       dst_ip |-> <<"5", "2", ".", "1", ".", "2", ".", "3">>,
       total_bytes |-> [gib |-> 0, rem |-> 536870912]],
      [src_ip |-> <<"1", ".", "1", ".", "1", ".", "1">>,
       dst_ip |-> <<"1", "0", ".", "0", ".", "0", ".", "5">>,
       total_bytes |-> [gib |-> 1, rem |-> 0]],
      [src_ip |-> <<"1", "0", ".", "0", ".", "0", ".", "5">>,
       dst_ip |-> <<"1", ".", "1", ".", "1", ".", "1">>,
       total_bytes |-> NaN] }

NextFrame ==
    \/ LoadFlow(FrameInputs, ReportHours, MaxFrameFlows)
    \/ EnrichFlowsWithCosts
    \/ GenerateCostReport

SpecFrame == InitPipeline /\ [][NextFrame]_vars

\* C22: enrich_flows_with_costs and generate_cost_report leave every flow
\* record with the source address, the destination address, the byte count
\* and the hour it was supplied with.  (The configuration tables are
\* definitions of this module: no method assigns them after __init__.)
C22_InputsKept ==
    [][(pc' = "enriched" \/ pc' = "reported") =>
          /\ Len(df') = Len(df)
          /\ hasHour' = hasHour
          /\ \A i \in 1 .. Len(df) :
                /\ df'[i].src_ip = df[i].src_ip
                /\ df'[i].dst_ip = df[i].dst_ip
                /\ df'[i].total_bytes = df[i].total_bytes
                /\ hasHour => df'[i].hour = df[i].hour]_vars

(***************************************************************************)
(* Two report generations side by side                                     *)
(*                                                                         *)
(* Each batch has its own dataframe and goes through the statements of     *)
(* enrich_flows_with_costs and generate_cost_report one at a time; the     *)
(* statements of the two batches interleave in every order.  The           *)
(* calculator's tables are read by both and written by neither.            *)
(***************************************************************************)

MaxBatchFlows == 2

BatchIds == {1, 2}

\* the rows that the two callers hold: no row is in both batches
BatchInputs(b) ==
    IF b = 1
    THEN { [src_ip      |-> <<"1", "0", ".", "0", ".", "0", ".", "5">>,
            dst_ip      |-> <<"5", "2", ".", "1", ".", "2", ".", "3">>,
            total_bytes |-> [gib |-> MaxGiB, rem |-> 0]],
           [src_ip      |-> <<"1", "0", ".", "0", ".", "0", ".", "5">>,
            dst_ip      |-> <<"1", ".", "1", ".", "1", ".", "1">>,
            total_bytes |-> [gib |-> 0, rem |-> 536870912]] }
    ELSE { [src_ip      |-> <<"1", ".", "1", ".", "1", ".", "1">>,
            dst_ip      |-> <<"1", "0", ".", "0", ".", "0", ".", "5">>,
            total_bytes |-> [gib |-> 1, rem |-> 0]],
           [src_ip      |-> <<"1", "0", ".", "0", ".", "0", ".", "5">>,
            dst_ip      |-> <<"1", ".", "1", ".", "1", ".", "1">>,
            total_bytes |-> NaN] }

BatchHours(b) == IF b = 1 THEN {14} ELSE {3, 14}

\* the dataframes of at most n rows that a caller can hold
RECURSIVE BatchFrames(_, _, _)
BatchFrames(b, hourColumn, n) ==
    IF n = 0
    THEN {<<>>}
    ELSE LET shorter == BatchFrames(b, hourColumn, n - 1)
             rows    == IF hourColumn
                        THEN {SetColumn(f, "hour", h) :
                                 f \in BatchInputs(b), h \in BatchHours(b)}
                        ELSE BatchInputs(b)
         IN  shorter \cup
             {Append(s, r) : s \in {t \in shorter : Len(t) = n - 1}, r \in rows}

InitBatches ==
    /\ df = <<>>
    /\ hasHour = FALSE
    /\ pc = "loading"
    /\ report = NoReport
    /\ call = NoCall
    /\ packets = <<>>
    /\ flows = <<>>
    /\ \E h1 \in BOOLEAN, h2 \in BOOLEAN :
       \E f1 \in BatchFrames(1, h1, MaxBatchFlows),
          f2 \in BatchFrames(2, h2, MaxBatchFlows) :
          batches = << [flows |-> f1, df |-> f1, hasHour |-> h1,
                        pc |-> "start", report |-> NoReport],
                       [flows |-> f2, df |-> f2, hasHour |-> h2,
                        pc |-> "start", report |-> NoReport] >>

\* one statement of a batch: its frame becomes frame, its position at
BatchStep(b, frame, at) ==
    /\ batches' = [batches EXCEPT ![b].df = frame, ![b].pc = at]
    /\ UNCHANGED <<df, hasHour, pc, report, call, packets, flows>>

\* df['traffic_type'] = df.apply(...)
ClassifyBatch(b) ==
    /\ batches[b].pc = "start"
    /\ BatchStep(b, [i \in 1 .. Len(batches[b].df) |->
                       SetColumn(batches[b].df[i], "traffic_type",
                                 classify_traffic(batches[b].df[i].src_ip,
                                                  batches[b].df[i].dst_ip))],
                 "classified")

\* df['is_peak'] = df['hour'].isin(self.peak_hours), or False
FlagPeakBatch(b) ==
    /\ batches[b].pc = "classified"
    /\ BatchStep(b, [i \in 1 .. Len(batches[b].df) |->
                       SetColumn(batches[b].df[i], "is_peak",
                                 IF batches[b].hasHour
                                 THEN batches[b].df[i].hour \in peak_hours
                                 ELSE FALSE)],
                 "flagged")

\* df['cost_nrs'] = df.apply(self.calculate_flow_cost_nrs, axis=1)
CostBatch(b) ==
    /\ batches[b].pc = "flagged"
    /\ BatchStep(b, [i \in 1 .. Len(batches[b].df) |->
                       SetColumn(batches[b].df[i], "cost_nrs",
                                 calculate_flow_cost_nrs(batches[b].df[i]))],
                 "costed")

\* df['total_gb'] = df['total_bytes'] / (1024**3)
VolumeBatch(b) ==
    /\ batches[b].pc = "costed"
    /\ BatchStep(b, [i \in 1 .. Len(batches[b].df) |->
                       SetColumn(batches[b].df[i], "total_gb",
                                 BytesToGB(batches[b].df[i].total_bytes))],
                 "enriched")

\* df['total_bytes'] = pd.to_numeric(...).fillna(0)
CoerceBatch(b) ==
    /\ batches[b].pc = "enriched"
    /\ BatchStep(b, [i \in 1 .. Len(batches[b].df) |->
                       CoerceBytes(batches[b].df[i])],
                 "coerced")

\* a mutation of ReportBatch: the report is computed from the frame that the
\* first caller handed in, once that frame is ready
ReportBatch_of_first_frame(b) ==
    /\ batches[b].pc = "coerced"
    /\ batches' = [batches EXCEPT
                      ![b].report =
                          generate_cost_report(
                              IF batches[1].pc \in {"coerced", "reported"}
                              THEN batches[1].df ELSE batches[b].df),
                      ![b].pc = "reported"]
    /\ UNCHANGED <<df, hasHour, pc, report, call, packets, flows>>

\* the rest of generate_cost_report: the figures and the report dict
ReportBatch(b) ==
    /\ batches[b].pc = "coerced"
    /\ batches' = [batches EXCEPT
                      ![b].report = generate_cost_report(batches[b].df),
                      ![b].pc = "reported"]
    /\ UNCHANGED <<df, hasHour, pc, report, call, packets, flows>>

NextBatches ==
    \E b \in BatchIds :
        \/ ClassifyBatch(b)
        \/ FlagPeakBatch(b)
        \/ CostBatch(b)
        \/ VolumeBatch(b)
        \/ CoerceBatch(b)
        \/ ReportBatch(b)

SpecBatches == InitBatches /\ [][NextBatches]_vars

\* the frame that enrich_flows_with_costs returns for a batch run alone
AloneEnriched(b) ==
    enrich_flows_with_costs(batches[b].flows, batches[b].hasHour)

\* the frame that generate_cost_report leaves for a batch run alone
AloneCoerced(b) ==
    [i \in 1 .. Len(batches[b].flows) |-> CoerceBytes(AloneEnriched(b)[i])]

\* C23: however the statements of two report generations over disjoint
\* batches interleave, each batch gets the categories, costs and volumes,
\* and the report (totals, breakdown, recommendations), that it gets when it
\* is run alone
C23_BatchesIndependent ==
    \A b \in BatchIds :
        /\ batches[b].pc = "enriched" => batches[b].df = AloneEnriched(b)
        /\ batches[b].pc \in {"coerced", "reported"} =>
              batches[b].df = AloneCoerced(b)
        /\ batches[b].pc = "reported" =>
              batches[b].report = generate_cost_report(AloneCoerced(b))
        /\ batches[b].pc # "reported" => batches[b].report = NoReport

\* the first batch has its report while the second, with rows of its own, is
\* in the middle of its enrichment
C23_Witness ==
    /\ Len(batches) = 2
    /\ batches[1].pc = "reported"
    /\ batches[2].pc = "costed"
    /\ Len(batches[1].flows) = MaxBatchFlows
    /\ Len(batches[2].flows) = MaxBatchFlows
    /\ batches[1].report.summary.total_cost_nrs > 0
    /\ \E i \in 1 .. Len(batches[2].df) : ~IsNaN(batches[2].df[i].total_bytes)

\* C24: the immediate estimated savings of a report (the sum of the savings
\* of its recommendations) are at most its total cost, and the savings
\* percentage is at most 100 %
C24_SavingsWithinTotal ==
    pc = "reported" =>
        /\ report.estimated_savings.immediate_savings_nrs
              <= report.summary.total_cost_nrs
        /\ report.estimated_savings.savings_percentage <= 1000

\* the categories that classify_traffic returns
FlowCategories ==
    {"INTERNAL", "CLOUD_EGRESS", "INTERNET_EGRESS", "INTERNET_INGRESS", "OTHER"}

\* C25: classify_traffic gives every pair of address strings one of
\* INTERNAL, CLOUD_EGRESS, INTERNET_EGRESS, INTERNET_INGRESS, OTHER; so no
\* enriched flow carries CDN_TRAFFIC, VIDEO_STREAMING or BACKUP_TRAFFIC, every
\* flow is priced at the rate of one of the five, and the breakdown of a
\* report has at most 5 entries, all of them among the five.
C25_FiveCategories ==
    /\ \A s \in Addresses, d \in Addresses :
          classify_traffic(s, d) \in FlowCategories
    /\ pc \in {"enriched", "reported"} =>
          \A i \in 1 .. Len(df) :
              /\ df[i].traffic_type \in FlowCategories
              /\ df[i].traffic_type
                    \notin {"CDN_TRAFFIC", "VIDEO_STREAMING", "BACKUP_TRAFFIC"}
              /\ df[i].cost_nrs =
                    Round4(df[i].total_bytes,
                           pricing[df[i].traffic_type]
                              * (IF df[i].is_peak THEN peak_surcharge ELSE 2))
    /\ pc = "reported" =>
          /\ DOMAIN report.breakdown \subseteq FlowCategories
          /\ Cardinality(DOMAIN report.breakdown) <= 5

\* C25 witness: a report whose breakdown has all five categories
C25_Witness ==
    /\ pc = "reported"
    /\ DOMAIN report.breakdown = FlowCategories
    /\ \A t \in FlowCategories : \E i \in 1 .. Len(df) : df[i].traffic_type = t

(***************************************************************************)
(* extract_flows of pcap_to_flows.py                                       *)
(*                                                                         *)
(* A packet is a record of the layers that scapy finds in it: whether it   *)
(* has an IP layer, its transport layer, the addresses and ports, its      *)
(* timestamp and its length.  The flows dictionary is a sequence of        *)
(* entries in insertion order, one per key; None is the empty sequence     *)
(* and a timestamp t is <<t>>.                                             *)
(***************************************************************************)

MaxPackets == 3

\* pkt.time of the packets of the capture, which need not be in order
Timestamps == {1, 3}

\* the packets that rdpcap can hand over: TCP and UDP over IPv4 in both
\* directions, ICMP over IPv4, ARP, and TCP over IPv6 (no IP layer)
CapturePackets ==
    { [ip |-> i, l4 |-> l, src |-> s, dst |-> d, sport |-> sp, dport |-> dp,
       time |-> t, size |-> z] :
        i \in {TRUE}, l \in {"TCP"}, s \in {"192.168.1.10"}, d \in {"52.1.2.3"},
        sp \in {1234}, dp \in {80}, t \in Timestamps, z \in {60, 1500} }
    \cup
    { [ip |-> TRUE, l4 |-> "TCP", src |-> "52.1.2.3", dst |-> "192.168.1.10",
       sport |-> 80, dport |-> 1234, time |-> t, size |-> 1500] :
        t \in Timestamps }
    \cup
    { [ip |-> TRUE, l4 |-> "UDP", src |-> "192.168.1.10", dst |-> "52.1.2.3",
       sport |-> 1234, dport |-> 80, time |-> t, size |-> 90] :
        t \in Timestamps }
    \cup
    { [ip |-> TRUE, l4 |-> "ICMP", src |-> "192.168.1.10", dst |-> "52.1.2.3",
       sport |-> 0, dport |-> 0, time |-> t, size |-> 98] :
        t \in Timestamps }
    \cup
    { [ip |-> FALSE, l4 |-> l, src |-> "", dst |-> "",
       sport |-> 1234, dport |-> 80, time |-> t, size |-> 74] :
        l \in {"ARP", "TCP"}, t \in {3} }

\* the state when the loop over the packets starts
InitExtract ==
    /\ df = <<>>
    /\ hasHour = FALSE
    /\ pc = "extracting"
    /\ report = NoReport
    /\ call = NoCall
    /\ batches = <<>>
    /\ packets = <<>>
    /\ flows = <<>>

\* the packets that the loop does not skip
IsCounted(pkt) == pkt.ip /\ pkt.l4 \in {"TCP", "UDP"}

\* a mutation of flow_key: the two directions of a conversation share a key
flow_key_either_way(pkt) ==
    IF pkt.sport <= pkt.dport
    THEN <<pkt.src, pkt.dst, pkt.sport, pkt.dport, pkt.l4>>
    ELSE <<pkt.dst, pkt.src, pkt.dport, pkt.sport, pkt.l4>>

\* flow_key = (src, dst, sport, dport, proto)
flow_key(pkt) == <<pkt.src, pkt.dst, pkt.sport, pkt.dport, pkt.l4>>

\* the value that the defaultdict makes for a new key
NewFlow(key) ==
    [key |-> key, start_time |-> <<>>, end_time |-> <<>>,
     total_bytes |-> 0, packet_count |-> 0]

\* the update of the flow stats by one packet
UpdateFlow(flow, pkt) ==
    [flow EXCEPT
        !.start_time   = IF flow.start_time = <<>> THEN <<pkt.time>> ELSE @,
        !.end_time     = <<pkt.time>>,
        !.total_bytes  = @ + pkt.size,
        !.packet_count = @ + 1]

\* one turn of the loop over the packets
ProcessPacket(pkt) ==
    /\ pc = "extracting"
    /\ Len(packets) < MaxPackets
    /\ packets' = Append(packets, pkt)
    /\ IF ~IsCounted(pkt)
       THEN flows' = flows
       ELSE LET key == flow_key(pkt)
            IN  IF \E j \in 1 .. Len(flows) : flows[j].key = key
                THEN flows' = [j \in 1 .. Len(flows) |->
                                  IF flows[j].key = key
                                  THEN UpdateFlow(flows[j], pkt)
                                  ELSE flows[j]]
                ELSE flows' = Append(flows, UpdateFlow(NewFlow(key), pkt))
    /\ UNCHANGED <<df, hasHour, pc, report, call, batches>>

\* the row of the output file for one flow; bytes_per_sec in 1e-2
FlowRow(flow) ==
    LET duration == flow.end_time[1] - flow.start_time[1]
    IN  [src_ip        |-> flow.key[1],
         dst_ip        |-> flow.key[2],
         src_port      |-> flow.key[3],
         dst_port      |-> flow.key[4],
         protocol      |-> flow.key[5],
         duration_sec  |-> duration,
         total_bytes   |-> flow.total_bytes,
         packet_count  |-> flow.packet_count,
         bytes_per_sec |-> IF duration >= 1
                           THEN RoundDiv(flow.total_bytes * 100, duration)
                           ELSE flow.total_bytes * 1000]

\* the end of the loop: the rows, the dataframe, the file and the summary,
\* whose df['total_bytes'] raises KeyError on a dataframe without rows
ConvertToRows ==
    /\ pc = "extracting"
    /\ df' = [j \in 1 .. Len(flows) |-> FlowRow(flows[j])]
    /\ pc' = IF flows = <<>> THEN "KeyError" ELSE "extracted"
    /\ UNCHANGED <<hasHour, report, call, batches, packets, flows>>

NextExtract ==
    \/ \E pkt \in CapturePackets : ProcessPacket(pkt)
    \/ ConvertToRows

SpecExtract == InitExtract /\ [][NextExtract]_vars

\* the positions in the capture of the counted packets of one key
PacketsOf(key) ==
    {i \in 1 .. Len(packets) :
        /\ packets[i].ip
        /\ packets[i].l4 \in {"TCP", "UDP"}
        /\ <<packets[i].src, packets[i].dst, packets[i].sport,
             packets[i].dport, packets[i].l4>> = key}

\* the sum of the lengths of the packets at the positions idx
RECURSIVE SumSizes(_)
SumSizes(idx) ==
    IF idx = {}
    THEN 0
    ELSE LET i == CHOOSE x \in idx : TRUE
         IN  packets[i].size + SumSizes(idx \ {i})

\* C26: the flows hold one entry per distinct (src, dst, sport, dport, proto)
\* among the packets that have an IP layer and a TCP or UDP layer; an entry
\* counts the packets of its key and adds up their lengths; its start_time is
\* the timestamp of the first and its end_time that of the last of them in
\* the order of the capture; the other packets change nothing.
C26_FlowPerFiveTuple ==
    LET keys == {<<packets[i].src, packets[i].dst, packets[i].sport,
                   packets[i].dport, packets[i].l4>> :
                    i \in {x \in 1 .. Len(packets) :
                              packets[x].ip /\ packets[x].l4 \in {"TCP", "UDP"}}}
        Min(S) == CHOOSE x \in S : \A y \in S : x <= y
        Max(S) == CHOOSE x \in S : \A y \in S : x >= y
    IN  /\ {flows[j].key : j \in 1 .. Len(flows)} = keys
        /\ Len(flows) = Cardinality(keys)
        /\ \A j \in 1 .. Len(flows) :
              LET idx == PacketsOf(flows[j].key)
              IN  /\ flows[j].packet_count = Cardinality(idx)
                  /\ flows[j].total_bytes = SumSizes(idx)
                  /\ flows[j].start_time = <<packets[Min(idx)].time>>
                  /\ flows[j].end_time = <<packets[Max(idx)].time>>

\* C26 witness: a capture out of time order that holds a skipped packet and
\* a flow of two packets whose first packet is later than its last
C26_Witness ==
    /\ Len(packets) = MaxPackets
    /\ \E j \in 1 .. Len(flows) :
          /\ flows[j].packet_count >= 2
          /\ flows[j].start_time[1] > flows[j].end_time[1]
    /\ \E i \in 1 .. Len(packets) : ~packets[i].ip \/ packets[i].l4 = "ICMP"

(***************************************************************************)
(* The pipeline through flow_enricher.py                                   *)
(*                                                                         *)
(* enrich_flows reads the scaled flows, adds its columns and writes        *)
(* data/enriched_flows.csv, which main of cost_model.py loads, enriches    *)
(* with costs and reports on.                                              *)
(***************************************************************************)

MaxScaledFlows == 3

\* rows of data/flows_scaled.csv: an upload to a cloud address, an internal
\* flow, a very large download and a small upload
ScaledInputs ==
    { [src_ip      |-> <<"1", "9", "2", ".", "1", "6", "8", ".", "1", ".", "1", "0">>,
       dst_ip      |-> <<"5", "2", ".", "1", ".", "2", ".", "3">>,
       total_bytes |-> [gib |-> 2, rem |-> 0]],
      [src_ip      |-> <<"1", "0", ".", "0", ".", "0", ".", "5">>,
       dst_ip      |-> <<"1", "7", "2", ".", "1", "6", ".", "0", ".", "1">>,
       total_bytes |-> [gib |-> 0, rem |-> 536870912]],
      [src_ip      |-> <<"8", ".", "8", ".", "8", ".", "8">>,
       dst_ip      |-> <<"1", "0", ".", "0", ".", "0", ".", "5">>,
       total_bytes |-> [gib |-> 11, rem |-> 0]],
      [src_ip      |-> <<"1", "0", ".", "0", ".", "0", ".", "5">>,
       dst_ip      |-> <<"1", ".", "1", ".", "1", ".", "1">>,
       total_bytes |-> [gib |-> 0, rem |-> 1000]] }

\* the state when enrich_flows reads its input file
InitEnricher ==
    /\ df = <<>>
    /\ hasHour = FALSE
    /\ pc = "scaled"
    /\ report = NoReport
    /\ call = NoCall
    /\ batches = <<>>
    /\ packets = <<>>
    /\ flows = <<>>

\* one more row of data/flows_scaled.csv
ReadScaledFlow ==
    /\ pc = "scaled"
    /\ Len(df) < MaxScaledFlows
    /\ \E f \in ScaledInputs : df' = Append(df, f)
    /\ UNCHANGED <<hasHour, pc, report, call, batches, packets, flows>>

\* a mutation of alternating_hour: the odd rows get 8 PM
alternating_hour_evening(i) == IF i % 2 = 0 THEN 14 ELSE 20

\* 14 if i % 2 == 0 else 3, for the row of position i counted from 0
alternating_hour(i) == IF i % 2 = 0 THEN 14 ELSE 3

\* get_direction
get_direction(src_ip, dst_ip) ==
    IF AnyPrefix(src_ip, << <<"1", "9", "2", ".", "1", "6", "8", ".">>,
                            <<"1", "0", ".">>, <<"1", "7", "2", ".">> >>)
    THEN IF AnyPrefix(dst_ip, << <<"1", "9", "2", ".", "1", "6", "8", ".">>,
                                 <<"1", "0", ".">>, <<"1", "7", "2", ".">>,
                                 <<"1", "2", "7", ".">> >>)
         THEN "INTERNAL"
         ELSE "UPLOAD"
    ELSE "DOWNLOAD"

\* categorize_size, of a volume in GB held as whole GB and 2^-30ths
categorize_size(gb) ==
    IF gb.gb > 10 \/ (gb.gb = 10 /\ gb.frac > 0)
    THEN "VERY_LARGE"
    ELSE IF gb.gb > 1 \/ (gb.gb = 1 /\ gb.frac > 0)
    THEN "LARGE"
    ELSE IF gb.gb >= 1 \/ gb.frac >= 107374183
    THEN "MEDIUM"
    ELSE "SMALL"

\* df['hour'].between(9, 17), on one hour
is_peak_hour(hour) == 9 <= hour /\ hour <= 17

\* get_destination_type
get_destination_type(ip) ==
    IF AnyPrefix(ip, << <<"2", "0", ".">>, <<"1", "3", ".">>, <<"5", "2", ".">>,
                        <<"5", "4", ".">>, <<"3", "5", ".">>, <<"3", "4", ".">> >>)
    THEN "CLOUD"
    ELSE IF AnyPrefix(ip, << <<"1", "9", "2", ".", "1", "6", "8", ".">>,
                             <<"1", "0", ".">>, <<"1", "7", "2", ".">>,
                             <<"1", "2", "7", ".">> >>)
    THEN "INTERNAL"
    ELSE IF AnyPrefix(ip, << <<"8", ".", "8", ".">>,
                             <<"1", "4", "0", ".", "8", "2", ".">>,
                             <<"1", "7", "3", ".", "1", "9", "4", ".">>,
                             <<"1", "8", "5", ".", "1", "9", "9", ".">> >>)
    THEN "SERVICE"
    ELSE "INTERNET"

\* the columns that enrich_flows adds to the row of position i (from 0)
EnricherRow(row, i) ==
    LET total_gb      == BytesToGB(row.total_bytes)
        hour          == alternating_hour(i)
        direction     == get_direction(row.src_ip, row.dst_ip)
        size_category == categorize_size(total_gb)
    IN  [src_ip           |-> row.src_ip,
         dst_ip           |-> row.dst_ip,
         total_bytes      |-> row.total_bytes,
         total_gb         |-> total_gb,
         hour             |-> hour,
         direction        |-> direction,
         size_category    |-> size_category,
         is_peak_hour     |-> is_peak_hour(hour),
         destination_type |-> get_destination_type(row.dst_ip),
         cost_urgency     |-> /\ direction = "UPLOAD"
                              /\ size_category \in {"LARGE", "VERY_LARGE"}
                              /\ is_peak_hour(hour)]

\* enrich_flows, and the load of its output file by main of cost_model.py
EnrichFlows ==
    /\ pc = "scaled"
    /\ df' = [j \in 1 .. Len(df) |-> EnricherRow(df[j], j - 1)]
    /\ hasHour' = TRUE
    /\ pc' = "loading"
    /\ UNCHANGED <<report, call, batches, packets, flows>>

NextEnricher ==
    \/ ReadScaledFlow
    \/ EnrichFlows
    \/ EnrichFlowsWithCosts
    \/ GenerateCostReport

SpecEnricher == InitEnricher /\ [][NextEnricher]_vars

\* C27: enrich_flows gives hour 14 to the flows of even position (from 0)
\* and hour 3 to those of odd position, and on every flow that went through
\* the enricher and the cost model the enricher's is_peak_hour (9 <= hour <=
\* 17) equals the cost model's is_peak (hour in 9 .. 22); of the hours of a
\* day the two definitions differ on 18 .. 22 exactly, which the enricher
\* never writes.
C27_PeakFlagsAgree ==
    /\ pc \in {"enriched", "reported"} =>
          \A j \in 1 .. Len(df) :
              /\ df[j].hour = (IF (j - 1) % 2 = 0 THEN 14 ELSE 3)
              /\ df[j].is_peak_hour = df[j].is_peak
              /\ df[j].hour \notin 18 .. 22
    /\ \A h \in Hours :
          (is_peak_hour(h) # (h \in peak_hours)) <=> h \in 18 .. 22

\* C27 witness: three flows through the enricher and the cost model, the
\* first and third at peak under both definitions, the second off peak
C27_Witness ==
    /\ pc = "enriched"
    /\ Len(df) = MaxScaledFlows
    /\ df[1].hour = 14 /\ df[1].is_peak /\ df[1].is_peak_hour
    /\ df[2].hour = 3 /\ ~df[2].is_peak /\ ~df[2].is_peak_hour
    /\ df[Len(df)].cost_nrs > 0

====
